---- MODULE Spec2Model ----
(***************************************************************************)
(* Reminder lifecycle engine of whatsapp-productivity: the task service,   *)
(* the reminder service, the BullMQ reminder queue, the delivery worker    *)
(* and the sweeper, as one state machine.                                  *)
(*                                                                         *)
(* Every async function is cut at its awaits: one action per awaited call, *)
(* so that the worker, the sweeper and a service call interleave exactly   *)
(* where the event loop lets them.  Time is counted in ticks of five       *)
(* minutes (the sweeper's period and its grace period).                    *)
(*                                                                         *)
(* Queue semantics are BullMQ's: a job id is `reminder-<id>`; add() with   *)
(* an id whose job still exists (delayed, active, or retained in the       *)
(* completed / failed sets) is ignored; job.remove() of a job that a       *)
(* worker holds (active) throws; a processor that throws is retried until  *)
(* `attempts` is used up and the job then stays in the failed set.         *)
(***************************************************************************)
EXTENDS Integers, Sequences, FiniteSets, TLC

\* ---- bounds of the model ----
MaxTasks == 1
MaxOps == 2
MaxTime == 1
MaxHours == 26
MaxChatTasks == 2
MaxChatTime == 2
MaxClockSteps == 16
MaxWords == 3
MaxIdLen == 3
MaxMessages == 3
MaxChars == 2
MaxEntries == 3

\* ---- program constants ----
MAX_REMINDER_RETRIES == 3
QueueAttempts == 3
GraceTicks == 1
\* WHATSAPP_SESSION_WINDOW_MS, in hours
SessionWindowHours == 24
\* getRecentSentReminder: sentAt >= now - 5 minutes, in ticks
RecentTicks == 1
\* a tick of the chat handlers' clock, in minutes
TickMinutes == 5
DEFAULT_SNOOZE_MINUTES == 15
\* confidences are in hundredths
AI_CONFIDENCE_THRESHOLD == 60
DEFAULT_REMINDER_HOUR == 10
DEFAULT_REMINDER_MINUTE == 0
\* seconds of a minute, an hour, a day
MinuteSec == 60
HourSec == 3600
DaySec == 86400
\* the clock of the interpreter's date functions starts at a midnight UTC and
\* advances by 3 h 30 min 1 s
ClockStart == 172800
ClockStep == 12601
\* time zones as [offset now, offset at the result] in seconds east of UTC:
\* UTC, Asia/Kolkata, America/Los_Angeles (PST, PDT, and across either DST
\* change), Pacific/Kiritimati
Zones ==
  { <<0, 0>>, <<19800, 19800>>, <<-28800, -28800>>, <<-25200, -25200>>,
    <<-28800, -25200>>, <<-25200, -28800>>, <<50400, 50400>> }

NoTime == -1
Times == 0..MaxTime
SnoozeTicks == {1}

MaxReminders == 2
ReminderIds == 1..MaxReminders
TaskIds == 1..MaxTasks

TaskStatuses == {"TODO", "DONE"}
ReminderStates == {"SCHEDULED", "SENT", "CANCELED", "FAILED", "ACKED_DONE", "ACKED_SNOOZE"}

VARIABLES
  now,          \* Date.now(), in ticks
  tasks,        \* task table: sequence, task id = index
  reminders,    \* reminder table: sequence, reminder id = index
  jobs,         \* reminder queue: job `reminder-<r>` for every reminder id r
  wpc,          \* position of the worker's processor for job r
  op,           \* the service call in flight (one caller)
  sweep,        \* the sweeper run in flight
  opsLeft,      \* service calls still allowed (bound)
  sendAttempts, \* history: calls of sendReminderMessage per reminder
  delivered,    \* history: successful sends per reminder
  session,      \* the user's session window and the mode of a reminder message
  chat,         \* one user's tasks and reminders as the chat handlers see them
  interp,       \* the interpreter's pure functions: their inputs and results
  parse,        \* one inbound text: its words, its interpretation, its dispatch
  hook          \* one POST to the webhook: its reply and the processing of its payload

vars == <<now, tasks, reminders, jobs, wpc, op, sweep, opsLeft, sendAttempts, delivered, session, chat, interp, parse, hook>>

Max(a, b) == IF a >= b THEN a ELSE b
Min(S) == CHOOSE x \in S : \A y \in S : x <= y

\* extra: queue entries for the reminder beyond the one with id reminder-<r>
NoJob == [st |-> "none", attemptsMade |-> 0, runAt |-> 0, result |-> "none", extra |-> 0]
IdleOp == [name |-> "idle", pc |-> "idle", t |-> 0, r |-> 0, todo |-> {},
           at |-> NoTime, snapAt |-> NoTime, snapSt |-> "TODO", phase |-> 0]
IdleSweep == [running |-> FALSE, todo |-> {}]

\* a Date | null that is null; no message sent yet, no deliveryMode recorded
NullDate == -1
\* parsed.taskId that is undefined
NoTask == 0
ChatTaskIds == 1..MaxChatTasks
\* parsed.snoozeMinutes that is undefined
NoMinutes == 0
\* the user of the chat, and another user of the system
Users == {"user", "other"}
NoMessage ==
  [handler |-> "none", taskId |-> NoTask, snoozeMinutes |-> NoMinutes, button |-> "none",
   from |-> "none"]
\* a handler's outcome: the result's action, the task it chose, whether a
\* message went to the user, whether the handler rejected instead of returning
NoReply == [action |-> "none", target |-> NoTask, messaged |-> FALSE, threw |-> FALSE]
IdleChat ==
  [clock |-> 0,
   task |-> [t \in ChatTaskIds |-> [status |-> "none", scheduled |-> FALSE, sentAt |-> NullDate,
                                    reminderAt |-> NullDate, scheduledAt |-> NullDate,
                                    owner |-> "none"]],
   message |-> NoMessage, reply |-> NoReply]

\* an interpretation (AIParsedResult): title and taskId are word sequences,
\* reminderAt is in seconds, snoozeMinutes 0 and status "none" stand for absent
Parsed(intent, status, title, reminderAt, taskId, minutes, confidence) ==
  [intent |-> intent, status |-> status, title |-> title, reminderAt |-> reminderAt,
   taskId |-> taskId, snoozeMinutes |-> minutes, confidence |-> confidence]

\* no interpretation (yet), and null from parseWithAI
NoResult == Parsed("none", "none", <<>>, NullDate, <<>>, 0, 0)

\* what the language-model escalation did, and the JSON it answered with
Escalation(kind, value) == [kind |-> kind, value |-> value]
NotCalled == Escalation("not_called", NoResult)

\* what the dispatcher did with an interpretation: the result's action and the
\* task it created (reminder: createTask scheduled a reminder and its job)
NoTaskCreated == [status |-> "none", title |-> <<>>, reminder |-> FALSE]
NoOutcome == [action |-> "none", created |-> NoTaskCreated]

\* what handleInteractiveReply makes of a reply id: the result's action, the
\* service it calls and the task id and minutes it calls it with
NoDecoded == [action |-> "none", call |-> "none", taskId |-> <<>>, minutes |-> 0]

IdleParse == [text |-> <<>>, context |-> <<0, 0>>, ai |-> NotCalled, result |-> NoResult,
              outcome |-> NoOutcome, taskId |-> <<>>, replyId |-> <<>>, decoded |-> NoDecoded]

\* status 0: no reply sent yet; effects and logged count the dispatcher's
\* writes and the errors the route logged
IdleHook == [pc |-> "idle", shape |-> "none", messages |-> <<>>, next |-> 0, status |-> 0,
             effects |-> 0, logged |-> 0]

\* the time expression of a text: its hour as written (0: none), its minute,
\* am / pm, and the day word
NoPhrase == [hour |-> 0, minute |-> 0, meridiem |-> "none", day |-> "unset"]
IdleInterp ==
  [clock |-> ClockStart, zone |-> <<0, 0>>, tomorrow |-> NullDate, minutes |-> 0,
   phrase |-> NoPhrase, reminderAt |-> NullDate]

\* the user row (name <<>>: null), the worker's send, and the last inbound
\* message: what it was, when it arrived, how often handleInboundMessage was
\* entered for it, whether processIntent was reached, and the result's action
IdleSession == [hour |-> 0, lastInboundAt |-> NullDate, pc |-> "idle",
                used |-> "none", deliveryMode |-> "none",
                name |-> <<>>, isOnboarded |-> FALSE,
                event |-> "none", text |-> <<>>, arrivedAt |-> NullDate,
                entries |-> 0, dispatched |-> FALSE, action |-> "none"]

RIds == 1..Len(reminders)
TIds == 1..Len(tasks)

\* prisma.task.findUnique: a row that was created and not deleted
TaskLive(t) == t \in TIds /\ tasks[t].live

\* ---- lib/queue.ts ----
\* queue.add without a jobId: every add makes a job of its own
scheduleReminderJob_AutoId(js, r, at) ==
  IF js[r].st = "none"
    THEN [js EXCEPT ![r] = [st |-> "delayed", attemptsMade |-> 0, runAt |-> Max(now, at),
                            result |-> "none", extra |-> js[r].extra]]
    ELSE [js EXCEPT ![r].extra = @ + 1]

\* scheduleReminderJob: delay = max(0, scheduledAt - now), jobId reminder-<id>;
\* BullMQ ignores add() while a job with that id exists.
scheduleReminderJob(js, r, at) ==
  IF js[r].st = "none"
    THEN [js EXCEPT ![r] = [st |-> "delayed", attemptsMade |-> 0, runAt |-> Max(now, at),
                            result |-> "none", extra |-> js[r].extra]]
    ELSE js

\* cancelReminderJob: getJob + job.remove(); remove() throws when the job is
\* locked by a worker.
cancelJobThrows(js, r) == js[r].st = "active"
cancelReminderJob(js, r) == [js EXCEPT ![r] = [NoJob EXCEPT !.extra = js[r].extra]]

\* ---- services/reminder.service.ts ----
updateReminderState_NoIncrement(rs, r, state, err) ==
  IF err = "none"
    THEN [rs EXCEPT ![r].state = state]
    ELSE [rs EXCEPT ![r].state = state, ![r].lastError = err]

\* updateReminderState: lastError given => also retriesCount: {increment: 1}
updateReminderState(rs, r, state, err) ==
  IF err = "none"
    THEN [rs EXCEPT ![r].state = state]
    ELSE [rs EXCEPT ![r].state = state, ![r].lastError = err,
                    ![r].retriesCount = @ + 1]

markReminderSent(rs, r) == [rs EXCEPT ![r].state = "SENT"]

markReminderFailed(rs, r, err) ==
  [rs EXCEPT ![r].state = "FAILED", ![r].lastError = err, ![r].retriesCount = @ + 1]

getStuckReminders_NoGrace ==
  {r \in RIds : reminders[r].state = "SCHEDULED" /\ reminders[r].scheduledAt <= now}

\* getStuckReminders: state SCHEDULED and scheduledAt <= now - 5 minutes
getStuckReminders ==
  {r \in RIds : reminders[r].state = "SCHEDULED" /\ reminders[r].scheduledAt <= now - GraceTicks}

NewReminder(t, at) ==
  [taskId |-> t, scheduledAt |-> at, state |-> "SCHEDULED", retriesCount |-> 0, lastError |-> "none"]

\* findMany({taskId, state: 'SCHEDULED'})
ScheduledOf(t) == {r \in RIds : reminders[r].taskId = t /\ reminders[r].state = "SCHEDULED"}

TypeOK ==
  /\ now \in Times
  /\ Len(tasks) <= MaxTasks
  /\ Len(reminders) <= MaxReminders
  /\ \A r \in RIds : reminders[r].state \in ReminderStates
  /\ \A r \in ReminderIds : jobs[r].st \in {"none", "delayed", "active", "completed", "failed"}
  /\ opsLeft \in 0..MaxOps

Init ==
  /\ now = 0
  /\ tasks = << >>
  /\ reminders = << >>
  /\ jobs = [r \in ReminderIds |-> NoJob]
  /\ wpc = [r \in ReminderIds |-> "idle"]
  /\ op = IdleOp
  /\ sweep = IdleSweep
  /\ opsLeft = MaxOps
  /\ sendAttempts = [r \in ReminderIds |-> 0]
  /\ delivered = [r \in ReminderIds |-> 0]
  /\ session = IdleSession
  /\ chat = IdleChat
  /\ interp = IdleInterp
  /\ parse = IdleParse
  /\ hook = IdleHook

\* ---- the clock ----
Tick ==
  /\ now < MaxTime
  /\ now' = now + 1
  /\ UNCHANGED <<tasks, reminders, jobs, wpc, op, sweep, opsLeft, sendAttempts, delivered, session, chat, interp, parse, hook>>

\* ---- the queue's bookkeeping around a processor run (BullMQ) ----
Runnable(r) == jobs[r].st = "delayed" /\ jobs[r].runAt <= now

JobActive(js, r) == [js EXCEPT ![r].st = "active", ![r].runAt = 0]

\* the processor returned: the job is kept in the completed set (removeOnComplete: 100);
\* result is the branch the processor returned from (what it logged)
JobCompleted(js, r, res) ==
  [js EXCEPT ![r] = [st |-> "completed", attemptsMade |-> 0, runAt |-> 0, result |-> res, extra |-> @.extra]]

\* the processor threw: retry with backoff (shorter than a tick) while attempts
\* remain, else the job is kept in the failed set (removeOnFail: 500)
JobThrew(js, r) ==
  IF js[r].attemptsMade + 1 < QueueAttempts
    THEN [js EXCEPT ![r] = [st |-> "delayed", attemptsMade |-> @.attemptsMade + 1, runAt |-> now,
                            result |-> "none", extra |-> @.extra]]
    ELSE [js EXCEPT ![r] = [st |-> "failed", attemptsMade |-> 0, runAt |-> 0, result |-> "none", extra |-> @.extra]]

\* ---- workers/reminder.worker.ts: the processor of job reminder-<r> ----
\* `if (!reminder) return` and `if (reminder.state !== 'SCHEDULED') return`
StaleRead_OnlyMissing(r) == r \notin RIds

StaleRead(r) == r \notin RIds \/ reminders[r].state # "SCHEDULED"

\* `if (!reminder.task || reminder.task.status === 'DONE')`
TaskGoneOrDone_OnlyMissing(r) == ~TaskLive(reminders[r].taskId)

TaskGoneOrDone(r) ==
  ~TaskLive(reminders[r].taskId) \/ tasks[reminders[r].taskId].status = "DONE"

\* `if (reminder.retriesCount >= MAX_REMINDER_RETRIES)`
RetriesExhausted_OffByOne(r) == reminders[r].retriesCount > MAX_REMINDER_RETRIES

RetriesExhausted(r) == reminders[r].retriesCount >= MAX_REMINDER_RETRIES

\* findUnique and the three checks that follow it without an await
WorkerRead(r) ==
  /\ Runnable(r) /\ wpc[r] = "idle"
  /\ IF StaleRead(r)
       THEN /\ jobs' = JobCompleted(jobs, r, "skipped")
            /\ wpc' = wpc
       ELSE /\ jobs' = JobActive(jobs, r)
            /\ wpc' = [wpc EXCEPT ![r] =
                 IF TaskGoneOrDone(r) THEN "cancel"
                 ELSE IF RetriesExhausted(r) THEN "fail"
                 ELSE "send"]
  /\ UNCHANGED <<now, tasks, reminders, op, sweep, opsLeft, sendAttempts, delivered, session, chat, interp, parse, hook>>

\* task is done or deleted: updateReminderState(reminderId, 'CANCELED'); return
WorkerCancel(r) ==
  /\ wpc[r] = "cancel"
  /\ reminders' = updateReminderState(reminders, r, "CANCELED", "none")
  /\ jobs' = JobCompleted(jobs, r, "canceled")
  /\ wpc' = [wpc EXCEPT ![r] = "idle"]
  /\ UNCHANGED <<now, tasks, op, sweep, opsLeft, sendAttempts, delivered, session, chat, interp, parse, hook>>

\* retry ceiling: markReminderFailed(reminderId, 'Max retries exceeded'); return
WorkerFail(r) ==
  /\ wpc[r] = "fail"
  /\ reminders' = markReminderFailed(reminders, r, "Max retries exceeded")
  /\ jobs' = JobCompleted(jobs, r, "failed")
  /\ wpc' = [wpc EXCEPT ![r] = "idle"]
  /\ UNCHANGED <<now, tasks, op, sweep, opsLeft, sendAttempts, delivered, session, chat, interp, parse, hook>>

\* whatsappService.sendReminderMessage; result.success or not
WorkerSend(r) ==
  /\ wpc[r] = "send"
  /\ sendAttempts' = [sendAttempts EXCEPT ![r] = @ + 1]
  /\ \E ok \in BOOLEAN :
       IF ok
         THEN /\ delivered' = [delivered EXCEPT ![r] = @ + 1]
              /\ wpc' = [wpc EXCEPT ![r] = "markSent"]
         ELSE /\ delivered' = delivered
              /\ wpc' = [wpc EXCEPT ![r] = "catch"]
  /\ UNCHANGED <<now, tasks, reminders, jobs, op, sweep, opsLeft, session, chat, interp, parse, hook>>

\* markReminderSent after a successful send; the update may throw
WorkerMarkSent(r) ==
  /\ wpc[r] = "markSent"
  /\ \E ok \in BOOLEAN :
       IF ok
         THEN /\ reminders' = markReminderSent(reminders, r)
              /\ wpc' = [wpc EXCEPT ![r] = "log"]
         ELSE /\ reminders' = reminders
              /\ wpc' = [wpc EXCEPT ![r] = "catch"]
  /\ UNCHANGED <<now, tasks, jobs, op, sweep, opsLeft, sendAttempts, delivered, session, chat, interp, parse, hook>>

\* logMessageEvent(userId, 'OUTBOUND', ...); the insert may throw
WorkerLog(r) ==
  /\ wpc[r] = "log"
  /\ \E ok \in BOOLEAN :
       IF ok
         THEN /\ jobs' = JobCompleted(jobs, r, "sent")
              /\ wpc' = [wpc EXCEPT ![r] = "idle"]
         ELSE /\ jobs' = jobs
              /\ wpc' = [wpc EXCEPT ![r] = "catch"]
  /\ UNCHANGED <<now, tasks, reminders, op, sweep, opsLeft, sendAttempts, delivered, session, chat, interp, parse, hook>>

\* catch: updateReminderState(reminderId, 'SCHEDULED', {lastError}); throw error
WorkerCatch(r) ==
  /\ wpc[r] = "catch"
  /\ reminders' = updateReminderState(reminders, r, "SCHEDULED", "error")
  /\ jobs' = JobThrew(jobs, r)
  /\ wpc' = [wpc EXCEPT ![r] = "idle"]
  /\ UNCHANGED <<now, tasks, op, sweep, opsLeft, sendAttempts, delivered, session, chat, interp, parse, hook>>

Worker ==
  \E r \in ReminderIds :
    \/ WorkerRead(r)
    \/ WorkerCancel(r)
    \/ WorkerFail(r)
    \/ WorkerSend(r)
    \/ WorkerMarkSent(r)
    \/ WorkerLog(r)
    \/ WorkerCatch(r)

\* ---- workers/sweeper.ts (second half of task.service.ts in src) ----
\* getStuckReminders(); return when there are none
SweeperScan ==
  /\ ~sweep.running
  /\ sweep' = IF getStuckReminders = {} THEN IdleSweep
              ELSE [running |-> TRUE, todo |-> getStuckReminders]
  /\ UNCHANGED <<now, tasks, reminders, jobs, wpc, op, opsLeft, sendAttempts, delivered, session, chat, interp, parse, hook>>

SweeperEnqueue_Reschedules ==
  /\ sweep.running
  /\ LET r == Min(sweep.todo) IN
       /\ jobs' = scheduleReminderJob(jobs, r, now)
       /\ reminders' = [reminders EXCEPT ![r].scheduledAt = now]
       /\ sweep' = IF sweep.todo = {r} THEN IdleSweep
                   ELSE [running |-> TRUE, todo |-> sweep.todo \ {r}]
  /\ UNCHANGED <<now, tasks, wpc, op, opsLeft, sendAttempts, delivered, session, chat, interp, parse, hook>>

\* scheduleReminderJob(reminder.id, ..., new Date()) for the next stuck reminder
SweeperEnqueue ==
  /\ sweep.running
  /\ LET r == Min(sweep.todo) IN
       /\ jobs' = scheduleReminderJob(jobs, r, now)
       /\ sweep' = IF sweep.todo = {r} THEN IdleSweep
                   ELSE [running |-> TRUE, todo |-> sweep.todo \ {r}]
  /\ UNCHANGED <<now, tasks, reminders, wpc, op, opsLeft, sendAttempts, delivered, session, chat, interp, parse, hook>>

\* a job record disappears from Redis: a queue outage, or the completed /
\* failed set evicting it (removeOnComplete / removeOnFail keep only the newest)
JobLost ==
  \E r \in ReminderIds :
    /\ jobs[r].st \in {"delayed", "completed", "failed"}
    /\ jobs' = [jobs EXCEPT ![r] = [NoJob EXCEPT !.extra = jobs[r].extra]]
    /\ UNCHANGED <<now, tasks, reminders, wpc, op, sweep, opsLeft, sendAttempts, delivered, session, chat, interp, parse, hook>>

\* ---- services/task.service.ts and services/reminder.service.ts: calls ----
CanCall == op.name = "idle" /\ opsLeft > 0
RoomForReminder == Len(reminders) < MaxReminders

StartOp(name, pc, t, r, at, snapAt, snapSt) ==
  [name |-> name, pc |-> pc, t |-> t, r |-> r, todo |-> {}, at |-> at,
   snapAt |-> snapAt, snapSt |-> snapSt, phase |-> 1]

\* `task.reminderAt && task.status !== 'DONE'`
WantsReminder(at, st) == at # NoTime /\ st # "DONE"

\* createTask: prisma.task.create, then scheduleReminder(task) if a reminder is set
CallCreateTask(st, at) ==
  /\ CanCall
  /\ Len(tasks) < MaxTasks
  /\ WantsReminder(at, st) => RoomForReminder
  /\ tasks' = Append(tasks, [live |-> TRUE, status |-> st, reminderAt |-> at])
  /\ op' = IF WantsReminder(at, st)
             THEN StartOp("createTask", "create", Len(tasks) + 1, 0, at, at, st)
             ELSE IdleOp
  /\ opsLeft' = opsLeft - 1
  /\ UNCHANGED <<now, reminders, jobs, wpc, sweep, sendAttempts, delivered, session, chat, interp, parse, hook>>

\* updateTask / moveTask: getTaskById (throws 'Task not found'), prisma.task.update,
\* then the reminder handling when 'reminderAt' or 'status' is in the input.
\* PATCH /tasks/:id builds its input with every key (an absent field is
\* undefined: the column stays, but the key is in the input), moveTask passes
\* {status}: the reminder handling runs for every call. phase 0 marks an
\* updateTask whose input changes neither status nor reminderAt.
UpdateCall(name, t, hasSt, st, hasAt, at) ==
  /\ CanCall
  /\ t \in TIds
  /\ opsLeft' = opsLeft - 1
  /\ IF ~TaskLive(t)
       THEN UNCHANGED <<tasks, op>>
       ELSE LET newSt == IF hasSt THEN st ELSE tasks[t].status
                newAt == IF hasAt THEN at ELSE tasks[t].reminderAt
                plain == newSt = tasks[t].status /\ newAt = tasks[t].reminderAt
            IN /\ WantsReminder(newAt, newSt) => RoomForReminder
               /\ tasks' = [tasks EXCEPT ![t].status = newSt, ![t].reminderAt = newAt]
               /\ op' = [StartOp(name, "find", t, 0, newAt, newAt, newSt)
                          EXCEPT !.phase = IF name = "updateTask" /\ plain THEN 0 ELSE 1]
  /\ UNCHANGED <<now, reminders, jobs, wpc, sweep, sendAttempts, delivered, session, chat, interp, parse, hook>>

CallUpdateTask ==
  \E t \in TaskIds, hasSt \in BOOLEAN, st \in TaskStatuses, hasAt \in BOOLEAN, at \in Times \cup {NoTime} :
    /\ ~hasSt => st = "TODO"
    /\ ~hasAt => at = NoTime
    /\ UpdateCall("updateTask", t, hasSt, st, hasAt, at)

\* moveTask(taskId, status)
CallMoveTask ==
  \E t \in TaskIds, st \in TaskStatuses : UpdateCall("moveTask", t, TRUE, st, FALSE, NoTime)

\* markTaskDone(taskId) is moveTask(taskId, 'DONE')
CallMarkTaskDone ==
  \E t \in TaskIds : UpdateCall("moveTask", t, TRUE, "DONE", FALSE, NoTime)

\* deleteTask: cancelTaskReminders, then prisma.task.delete
CallDeleteTask ==
  \E t \in TaskIds :
    /\ CanCall
    /\ t \in TIds
    /\ op' = StartOp("deleteTask", "find", t, 0, NoTime, NoTime, "TODO")
    /\ opsLeft' = opsLeft - 1
    /\ UNCHANGED <<now, tasks, reminders, jobs, wpc, sweep, sendAttempts, delivered, session, chat, interp, parse, hook>>

\* snoozeTask: newReminderAt = now + minutes, then cancelTaskReminders, ...
CallSnoozeTask ==
  \E t \in TaskIds, k \in SnoozeTicks :
    /\ CanCall
    /\ t \in TIds
    /\ RoomForReminder
    /\ op' = StartOp("snoozeTask", "find", t, 0, now + k, NoTime, "TODO")
    /\ opsLeft' = opsLeft - 1
    /\ UNCHANGED <<now, tasks, reminders, jobs, wpc, sweep, sendAttempts, delivered, session, chat, interp, parse, hook>>

\* where a call goes on after cancelTaskReminders has returned
AfterCancel(o) ==
  CASE o.name = "updateTask" ->
         IF WantsReminder(o.snapAt, o.snapSt) THEN [o EXCEPT !.pc = "create", !.todo = {}] ELSE IdleOp
    [] o.name = "moveTask" ->
         IF o.phase = 1 /\ WantsReminder(o.snapAt, o.snapSt) THEN [o EXCEPT !.pc = "create", !.todo = {}]
         ELSE IF o.phase = 1 /\ o.snapSt = "DONE" THEN [o EXCEPT !.pc = "find", !.todo = {}, !.phase = 2]
         ELSE IdleOp
    [] o.name = "deleteTask" -> [o EXCEPT !.pc = "delete", !.todo = {}]
    [] o.name = "snoozeTask" -> [o EXCEPT !.pc = "snoozeUpdate", !.todo = {}]
    [] OTHER -> IdleOp

\* cancelTaskReminders: findMany({taskId, state: 'SCHEDULED'})
CancelFind ==
  /\ op.pc = "find"
  /\ op' = IF ScheduledOf(op.t) = {} THEN AfterCancel(op)
           ELSE [op EXCEPT !.pc = "cancelJob", !.todo = ScheduledOf(op.t)]
  /\ UNCHANGED <<now, tasks, reminders, jobs, wpc, sweep, opsLeft, sendAttempts, delivered, session, chat, interp, parse, hook>>

\* cancelTaskReminders, loop body: cancelReminderJob(reminder.id)
CancelJob ==
  /\ op.pc = "cancelJob"
  /\ LET r == Min(op.todo) IN
       IF cancelJobThrows(jobs, r)
         THEN /\ op' = IdleOp
              /\ jobs' = jobs
         ELSE /\ op' = [op EXCEPT !.pc = "cancelUpdate", !.r = r]
              /\ jobs' = cancelReminderJob(jobs, r)
  /\ UNCHANGED <<now, tasks, reminders, wpc, sweep, opsLeft, sendAttempts, delivered, session, chat, interp, parse, hook>>

\* the row update of cancelTaskReminders and of cancelReminder
cancelUpdate(rs, r) == [rs EXCEPT ![r].state = "CANCELED"]

\* cancelTaskReminders, loop body: prisma.reminder.update({state: 'CANCELED'})
CancelUpdate ==
  /\ op.pc = "cancelUpdate"
  /\ reminders' = cancelUpdate(reminders, op.r)
  /\ op' = IF op.todo = {op.r} THEN AfterCancel(op)
           ELSE [op EXCEPT !.pc = "cancelJob", !.todo = @ \ {op.r}, !.r = 0]
  /\ UNCHANGED <<now, tasks, jobs, wpc, sweep, opsLeft, sendAttempts, delivered, session, chat, interp, parse, hook>>

\* scheduleReminder / snoozeTask: prisma.reminder.create({state: 'SCHEDULED'})
CreateReminder ==
  /\ op.pc = "create"
  /\ reminders' = Append(reminders, NewReminder(op.t, op.at))
  /\ op' = [op EXCEPT !.pc = "add", !.r = Len(reminders) + 1]
  /\ UNCHANGED <<now, tasks, jobs, wpc, sweep, opsLeft, sendAttempts, delivered, session, chat, interp, parse, hook>>

\* scheduleReminderJob(reminder.id, ...) that ends scheduleReminder, snoozeTask
\* and rescheduleReminder
AddJob ==
  /\ op.pc = "add"
  /\ jobs' = scheduleReminderJob(jobs, op.r, op.at)
  /\ op' = IdleOp
  /\ UNCHANGED <<now, tasks, reminders, wpc, sweep, opsLeft, sendAttempts, delivered, session, chat, interp, parse, hook>>

\* deleteTask: prisma.task.delete (throws when the row is gone); reminder rows
\* are kept, a reminder can outlive its task
DeleteRow ==
  /\ op.pc = "delete"
  /\ tasks' = IF TaskLive(op.t) THEN [tasks EXCEPT ![op.t].live = FALSE] ELSE tasks
  /\ op' = IdleOp
  /\ UNCHANGED <<now, reminders, jobs, wpc, sweep, opsLeft, sendAttempts, delivered, session, chat, interp, parse, hook>>

\* snoozeTask: prisma.task.update({reminderAt: newReminderAt}) (throws when the row is gone)
SnoozeUpdate ==
  /\ op.pc = "snoozeUpdate"
  /\ IF TaskLive(op.t)
       THEN /\ tasks' = [tasks EXCEPT ![op.t].reminderAt = op.at]
            /\ op' = [op EXCEPT !.pc = "create"]
       ELSE /\ tasks' = tasks
            /\ op' = IdleOp
  /\ UNCHANGED <<now, reminders, jobs, wpc, sweep, opsLeft, sendAttempts, delivered, session, chat, interp, parse, hook>>

\* rescheduleReminder / cancelReminder start with cancelReminderJob(id)
ReminderCall(name, pc, r, at) ==
  /\ CanCall
  /\ r \in RIds
  /\ opsLeft' = opsLeft - 1
  /\ IF cancelJobThrows(jobs, r)
       THEN UNCHANGED <<jobs, op>>
       ELSE /\ jobs' = cancelReminderJob(jobs, r)
            /\ op' = StartOp(name, pc, reminders[r].taskId, r, at, NoTime, "TODO")
  /\ UNCHANGED <<now, tasks, reminders, wpc, sweep, sendAttempts, delivered, session, chat, interp, parse, hook>>

CallRescheduleReminder ==
  \E r \in ReminderIds, at \in 0..(MaxTime + 1) :
    ReminderCall("rescheduleReminder", "rescheduleUpdate", r, at)

CallCancelReminder ==
  \E r \in ReminderIds : ReminderCall("cancelReminder", "cancelOne", r, NoTime)

\* rescheduleReminder: prisma.reminder.update({scheduledAt, state: 'SCHEDULED'})
rescheduleUpdate(rs, r, at) == [rs EXCEPT ![r].scheduledAt = at, ![r].state = "SCHEDULED"]

RescheduleUpdate ==
  /\ op.pc = "rescheduleUpdate"
  /\ reminders' = rescheduleUpdate(reminders, op.r, op.at)
  /\ op' = [op EXCEPT !.pc = "add"]
  /\ UNCHANGED <<now, tasks, jobs, wpc, sweep, opsLeft, sendAttempts, delivered, session, chat, interp, parse, hook>>

\* cancelReminder: prisma.reminder.update({state: 'CANCELED'})
CancelOne ==
  /\ op.pc = "cancelOne"
  /\ reminders' = cancelUpdate(reminders, op.r)
  /\ op' = IdleOp
  /\ UNCHANGED <<now, tasks, jobs, wpc, sweep, opsLeft, sendAttempts, delivered, session, chat, interp, parse, hook>>

\* markReminderAcked(id, 'done' | 'snooze')
markReminderAcked(rs, r, action) ==
  [rs EXCEPT ![r].state = IF action = "done" THEN "ACKED_DONE" ELSE "ACKED_SNOOZE"]

CallMarkReminderAcked ==
  \E r \in ReminderIds, action \in {"done", "snooze"} :
    /\ CanCall
    /\ r \in RIds
    /\ reminders' = markReminderAcked(reminders, r, action)
    /\ opsLeft' = opsLeft - 1
    /\ UNCHANGED <<now, tasks, jobs, wpc, op, sweep, sendAttempts, delivered, session, chat, interp, parse, hook>>

\* the calls the routes and the chat dispatcher make
Call ==
  \/ \E st \in TaskStatuses, at \in Times \cup {NoTime} : CallCreateTask(st, at)
  \/ CallUpdateTask
  \/ CallMarkTaskDone
  \/ CallDeleteTask
  \/ CallSnoozeTask

\* the exported service functions no route calls
ServiceCall ==
  \/ CallMoveTask
  \/ CallRescheduleReminder
  \/ CallCancelReminder
  \/ CallMarkReminderAcked

Step ==
  \/ CancelFind
  \/ CancelJob
  \/ CancelUpdate
  \/ CreateReminder
  \/ AddJob
  \/ DeleteRow
  \/ SnoozeUpdate

ServiceStep ==
  \/ RescheduleUpdate
  \/ CancelOne

Next ==
  \/ Tick
  \/ Call
  \/ Step
  \/ Worker
  \/ SweeperScan
  \/ SweeperEnqueue

Spec == Init /\ [][Next]_vars

\* the worker keeps processing runnable jobs, the cron keeps firing the sweeper,
\* an awaited call returns and time passes; nothing obliges a user to act
Fairness ==
  /\ \A r \in ReminderIds :
       WF_vars(WorkerRead(r) \/ WorkerCancel(r) \/ WorkerFail(r) \/ WorkerSend(r)
                 \/ WorkerMarkSent(r) \/ WorkerLog(r) \/ WorkerCatch(r))
  /\ WF_vars(SweeperScan)
  /\ WF_vars(SweeperEnqueue)
  /\ WF_vars(Step)
  /\ WF_vars(Tick)

FairSpec == Spec /\ Fairness

\* the calls the chat dispatcher makes (createTask, markTaskDone, snoozeTask)
ChatCall ==
  \/ \E st \in TaskStatuses, at \in Times \cup {NoTime} : CallCreateTask(st, at)
  \/ CallMarkTaskDone
  \/ CallSnoozeTask

ChatStep ==
  \/ CancelFind
  \/ CancelJob
  \/ CancelUpdate
  \/ CreateReminder
  \/ AddJob
  \/ SnoozeUpdate

NextChat ==
  \/ Tick
  \/ ChatCall
  \/ ChatStep
  \/ Worker
  \/ SweeperScan
  \/ SweeperEnqueue

SpecChat == Init /\ [][NextChat]_vars

\* the same, with the reminder service's own entry points callable as well
NextService == Next \/ ServiceCall \/ ServiceStep

SpecService == Init /\ [][NextService]_vars

\* ---- the delivery mode of a reminder message, time in hours ----
\* isWithinSessionWindow(lastInboundAt): differenceInMilliseconds(new Date(),
\* lastInboundAt) < window
isWithinSessionWindow_Strict(lastInboundAt, h) ==
  IF lastInboundAt = NullDate THEN FALSE
  ELSE h - lastInboundAt < SessionWindowHours

\* isWithinSessionWindow(lastInboundAt): false for null, else
\* differenceInMilliseconds(new Date(), lastInboundAt) <= WHATSAPP_SESSION_WINDOW_MS
isWithinSessionWindow(lastInboundAt, h) ==
  IF lastInboundAt = NullDate THEN FALSE
  ELSE h - lastInboundAt <= SessionWindowHours

\* an hour passes
SessionTick ==
  /\ session.hour < MaxHours
  /\ session' = [session EXCEPT !.hour = @ + 1]
  /\ UNCHANGED <<now, tasks, reminders, jobs, wpc, op, sweep, opsLeft, sendAttempts, delivered, chat, interp, parse, hook>>

\* ---- agent/handler.ts: an inbound message of the user, text in characters ----
Chars == {" ", "h", "i", "H"}
Texts == UNION {[1..n -> Chars] : n \in 1..MaxChars}

\* the texts of the delivery-mode machine: a greeting and a name
SessionTexts == {<<"h", "i">>, <<"i", "h">>}

Lower(w) == IF w = "HELP" THEN "help" ELSE IF w = "H" THEN "h" ELSE w

\* text.toLowerCase()
toLowerCase(text) == [i \in 1..Len(text) |-> Lower(text[i])]

\* text.trim(): the spaces at both ends go
RECURSIVE trim(_)
trim(text) ==
  IF text = <<>> THEN text
  ELSE IF Head(text) = " " THEN trim(Tail(text))
  ELSE IF text[Len(text)] = " " THEN trim(SubSeq(text, 1, Len(text) - 1))
  ELSE text

\* trimmedText.split(' ')[0]
RECURSIVE firstWord(_)
firstWord(text) ==
  IF text = <<>> \/ Head(text) = " " THEN <<>> ELSE <<Head(text)>> \o firstWord(Tail(text))

\* ['hi', 'hello', 'hey', 'start', 'help', '/start']
Greetings ==
  {<<"h", "i">>, <<"h", "e", "l", "l", "o">>, <<"h", "e", "y">>, <<"s", "t", "a", "r", "t">>,
   <<"h", "e", "l", "p">>, <<"/", "s", "t", "a", "r", "t">>}

\* updateLastInbound: user.lastInboundAt = new Date()
updateLastInbound(s) == [s EXCEPT !.lastInboundAt = s.hour]

\* a markUserOnboarded that writes nothing
markUserOnboarded_NoWrite(s) == s

\* markUserOnboarded: isOnboarded: true
markUserOnboarded(s) == [s EXCEPT !.isOnboarded = TRUE]

\* updateUserName
updateUserName(s, name) == [s EXCEPT !.name = name]

\* handleInboundMessage(from, text): getOrCreateUserByWhatsApp, updateLastInbound,
\* logMessageEvent, then handleOnboarding for a user who is not onboarded, else
\* parseMessage and processIntent; whatever rejects is caught and answered
\* with action 'error'. handleOnboarding: a user without a name gets the
\* welcome for a command or a trimmed text under 2 characters, else the first
\* word becomes the name and the user is marked onboarded; a user with a name
\* is marked onboarded and handleInboundMessage is entered again.
\* rejects: markUserOnboarded rejects; intent: how processIntent ends
RECURSIVE inboundMessage(_, _, _, _)
RECURSIVE handleOnboarding(_, _, _, _)
inboundMessage(s, text, rejects, intent) ==
  LET user == s
      entered == [updateLastInbound(s) EXCEPT !.entries = @ + 1]
  IN IF entered.entries > MaxEntries THEN [entered EXCEPT !.action = "error"]
     ELSE IF ~user.isOnboarded THEN handleOnboarding(entered, text, rejects, intent)
     ELSE [entered EXCEPT !.dispatched = TRUE, !.action = intent]

handleOnboarding(s, text, rejects, intent) ==
  LET trimmedText == trim(text)
      lowerText == toLowerCase(trimmedText)
      isCommand == lowerText \in Greetings
      name == firstWord(trimmedText)
  IN IF s.name = <<>>
       THEN IF isCommand \/ Len(trimmedText) < 2
              THEN [s EXCEPT !.action = "onboarding_welcome"]
              ELSE IF rejects THEN [updateUserName(s, name) EXCEPT !.action = "error"]
              ELSE [markUserOnboarded(updateUserName(s, name)) EXCEPT
                      !.action = "onboarding_complete"]
       ELSE IF rejects THEN [s EXCEPT !.action = "error"]
            ELSE inboundMessage(markUserOnboarded(s), text, rejects, intent)

\* an interactive reply whose last-inbound time is written only when the
\* reply's action went through
interactiveReply_UpdateOnSuccess(s, outcome) ==
  [(IF outcome \in {"task_done", "task_snoozed"} THEN updateLastInbound(s) ELSE s)
     EXCEPT !.action = outcome]

\* handleInteractiveReply(from, replyId): getOrCreateUserByWhatsApp and
\* updateLastInbound, then the switch on the reply id: the action goes through,
\* rejects (no try / catch here), or the id is unknown
interactiveReply(s, outcome) == [updateLastInbound(s) EXCEPT !.action = outcome]

\* a text message of the user reaches the webhook
InboundText(texts) ==
  \E text \in texts, rejects \in BOOLEAN, intent \in {"intent", "error"} :
    /\ session' =
         [inboundMessage([session EXCEPT !.entries = 0, !.dispatched = FALSE,
                                         !.arrivedAt = session.hour],
                         text, rejects, intent)
            EXCEPT !.event = "text", !.text = text]
    /\ UNCHANGED <<now, tasks, reminders, jobs, wpc, op, sweep, opsLeft, sendAttempts, delivered, chat, interp, parse, hook>>

SessionText == InboundText(SessionTexts)

OnboardText == InboundText(Texts)

\* a button or list reply of the user reaches the webhook
InboundReply ==
  \E outcome \in {"task_done", "task_snoozed", "rejected", "unknown_reply"} :
    /\ session' =
         [interactiveReply([session EXCEPT !.entries = 0, !.dispatched = FALSE,
                                           !.arrivedAt = session.hour], outcome)
            EXCEPT !.event = "reply", !.text = <<>>]
    /\ UNCHANGED <<now, tasks, reminders, jobs, wpc, op, sweep, opsLeft, sendAttempts, delivered, chat, interp, parse, hook>>

\* sendReminderMessage(user, task): buttons inside the session window, the
\* template outside; the worker goes on to markReminderSent when result.success
sendReminderMessage ==
  /\ session.pc = "idle"
  /\ \E success \in BOOLEAN :
       session' = [session EXCEPT
         !.used = IF isWithinSessionWindow(session.lastInboundAt, session.hour)
                    THEN "SESSION_FREEFORM" ELSE "TEMPLATE",
         !.pc = IF success THEN "markSent" ELSE "idle",
         !.event = "send"]
  /\ UNCHANGED <<now, tasks, reminders, jobs, wpc, op, sweep, opsLeft, sendAttempts, delivered, chat, interp, parse, hook>>

\* markReminderSent(id, messageId, deliveryMode): deliveryMode: deliveryMode || undefined
SessionMarkSent ==
  /\ session.pc = "markSent"
  /\ session' = [session EXCEPT !.deliveryMode = session.used, !.pc = "idle", !.event = "sent"]
  /\ UNCHANGED <<now, tasks, reminders, jobs, wpc, op, sweep, opsLeft, sendAttempts, delivered, chat, interp, parse, hook>>

NextSession ==
  \/ SessionTick
  \/ SessionText
  \/ InboundReply
  \/ sendReminderMessage
  \/ SessionMarkSent

SpecSession == Init /\ [][NextSession]_vars

\* the user's messages alone, every text of up to MaxChars characters
NextOnboard == OnboardText \/ InboundReply

SpecOnboard == Init /\ [][NextOnboard]_vars

\* ---- agent/parser.ts: the interpreter's functions, time in seconds ----
InterpUnchanged ==
  UNCHANGED <<now, tasks, reminders, jobs, wpc, op, sweep, opsLeft, sendAttempts, delivered,
              session, chat, parse, hook>>

\* time passes; the user may be in any of the zones
ClockTick ==
  /\ interp.clock < ClockStart + MaxClockSteps * ClockStep
  /\ \E z \in Zones :
       interp' = [interp EXCEPT !.clock = @ + ClockStep, !.zone = z,
                                !.phrase = NoPhrase, !.reminderAt = NullDate]
  /\ InterpUnchanged

\* date-fns setHours / setMinutes on a wall-clock time: the other fields stay
setHours(wall, h) == wall - ((wall % DaySec) \div HourSec) * HourSec + h * HourSec
setMinutes(wall, m) == wall - ((wall % HourSec) \div MinuteSec) * MinuteSec + m * MinuteSec

\* a getTomorrow10am that does not add the day
getTomorrow10am_Today(t, zone) ==
  LET zonedNow == t + zone[1]
      at10am == setMinutes(setHours(zonedNow, DEFAULT_REMINDER_HOUR), DEFAULT_REMINDER_MINUTE)
  IN at10am - zone[2]

\* getTomorrow10am(timezone): toZonedTime(now), addDays(1), setHours(10),
\* setMinutes(0), fromZonedTime
getTomorrow10am(t, zone) ==
  LET zonedNow == t + zone[1]
      tomorrow == zonedNow + DaySec
      at10am == setMinutes(setHours(tomorrow, DEFAULT_REMINDER_HOUR), DEFAULT_REMINDER_MINUTE)
  IN at10am - zone[2]

\* Math.ceil(ms / 60000), for a positive or negative difference
CeilMinutes(sec) == -((-sec) \div MinuteSec)

\* the "tomorrow" snooze: tomorrow = getTomorrow10am(user.timezone);
\* minutes = Math.ceil((tomorrow.getTime() - Date.now()) / 60000)
SnoozeTomorrow ==
  /\ LET tomorrow == getTomorrow10am(interp.clock, interp.zone) IN
       interp' = [interp EXCEPT !.tomorrow = tomorrow,
                                !.minutes = CeilMinutes(tomorrow - interp.clock),
                                !.phrase = NoPhrase, !.reminderAt = NullDate]
  /\ InterpUnchanged

\* ---- utils: parseDateTime ----
\* The process runs in UTC, so toZonedTime adds the zone's offset to an instant
\* and fromZonedTime subtracts it. chrono-node is not part of the repository;
\* parse(text, ref, {forwardDate: true}) is taken to read the hour as written
\* (a bare 1..11 as a.m., a bare 12 as noon, the meridiem then not certain),
\* to put it on the reference's day, on the next day for "tomorrow", and, for
\* a time without a day word, on the next day when it is before the reference.

\* the time expressions a text can hold: none, a day word alone, or a time
\* with or without am / pm and with or without a day word
Phrases ==
  { p \in [hour : 0..12, minute : {0, 45}, meridiem : {"none", "am", "pm"},
           day : {"none", "today", "tomorrow"}] :
      p.hour = 0 => (p.minute = 0 /\ p.meridiem = "none") }

\* chrono.parse(text, zonedRef, { forwardDate: true })[0]: date(), start.get('hour')
chronoParse(phrase, zonedRef) ==
  LET hour == IF phrase.meridiem = "am" THEN phrase.hour % 12
              ELSE IF phrase.meridiem = "pm" THEN (phrase.hour % 12) + 12
              ELSE phrase.hour
      day == IF phrase.day = "tomorrow" THEN zonedRef + DaySec ELSE zonedRef
      at == setMinutes(setHours(day, hour), phrase.minute) - (day % MinuteSec)
  IN [hour |-> hour,
      date |-> IF phrase.day = "none" /\ zonedRef > at THEN at + DaySec ELSE at]

\* parseDateTime(text, timezone, referenceDate): null without a certain hour;
\* a bare hour 1..11 becomes p.m. by the current hour; without "today" and
\* "tomorrow" a day is added when zonedRef is after toZonedTime(date)
parseDateTime(phrase, zone, ref) ==
  LET zonedRef == ref + zone[1]
      currentHour == (zonedRef % DaySec) \div HourSec
      parsed == chronoParse(phrase, zonedRef)
      parsedHour == parsed.hour
      date == IF /\ phrase.meridiem = "none"
                 /\ parsedHour >= 1 /\ parsedHour <= 11
                 /\ \/ currentHour >= 12 /\ parsedHour < currentHour - 12
                    \/ currentHour >= 17 /\ parsedHour < 12
                THEN setHours(parsed.date, parsedHour + 12)
              ELSE parsed.date
      zonedDate == date + zone[2]
  IN IF phrase.hour = 0 THEN NullDate
     ELSE IF phrase.day = "none" /\ zonedRef > zonedDate
       THEN date + DaySec - zone[2]
     ELSE date - zone[2]

\* a text with a time expression is resolved at the current time
ResolveTime ==
  /\ \E phrase \in Phrases :
       interp' = [interp EXCEPT !.phrase = phrase,
                                !.reminderAt = parseDateTime(phrase, interp.zone, interp.clock),
                                !.tomorrow = NullDate, !.minutes = 0]
  /\ InterpUnchanged

NextInterp ==
  \/ ClockTick
  \/ SnoozeTomorrow
  \/ ResolveTime

SpecInterp == Init /\ [][NextInterp]_vars

\* ---- agent/parser.ts and utils: one text, interpreted and dispatched ----
\* A text is a sequence of words of a small vocabulary, single spaces between
\* them; what the code does on characters (prefixes, substrings, regular
\* expressions) is done here on words, from the tables StartsWith and
\* NumPrefix. chrono-node is taken to find a time with a certain hour in "5pm"
\* and in no other word of the vocabulary.

ParseUnchanged ==
  UNCHANGED <<now, tasks, reminders, jobs, wpc, op, sweep, opsLeft, sendAttempts, delivered,
              session, chat, interp, hook>>

Words == {"help", "HELP", "?", "list", "tasks", "show", "ideas", "settings", "done", "done:",
          "snooze", "idea:", "todo:", "brainstorm", "reminder", "move", "to", "x", "30", "2h",
          "minutes", "tomorrow", "5pm"}

\* the user's zone offset and the reference time: noon UTC, and 20:30 in Kolkata
Contexts == {<<0, ClockStart + 12 * HourSec>>, <<19800, ClockStart + 15 * HourSec>>}

\* the user types the next word of the message
Type ==
  /\ parse.result = NoResult /\ parse.taskId = <<>>
  /\ Len(parse.text) < MaxWords
  /\ \E w \in Words : parse' = [parse EXCEPT !.text = Append(@, w)]
  /\ ParseUnchanged

\* String.startsWith on a lower-case word of the vocabulary
StartsWith(w, prefix) ==
  CASE prefix = "done" -> w \in {"done", "done:"}
    [] prefix = "idea" -> w \in {"idea:", "ideas"}
    [] prefix = "todo" -> w \in {"todo:"}
    [] prefix = "h" -> w = "help"
    [] prefix = "min" -> w \in {"minutes"}
    [] OTHER -> w = prefix

\* lower.includes(w), for a w that no other word of the vocabulary contains
HasWord(lower, w) == \E i \in 1..Len(lower) : lower[i] = w

\* lower.includes('to idea') || lower.includes('to todo') || lower.includes('to done')
HasMoveTarget(lower) ==
  \E i \in 1..(Len(lower) - 1) :
    lower[i] = "to" /\ \E p \in {"idea", "todo", "done"} : StartsWith(lower[i + 1], p)

Detected(intent, status) == [intent |-> intent, status |-> status]

\* a detectIntentRuleBased that looks for ideas before the done markers
detectIntentRuleBased_IdeasFirst(text) ==
  LET lower == toLowerCase(text)
  IN IF lower \in {<<"list">>, <<"tasks">>, <<"show", "tasks">>} THEN Detected("list_tasks", "none")
     ELSE IF lower \in {<<"ideas">>, <<"show", "ideas">>} THEN Detected("list_tasks", "IDEA")
     ELSE IF lower \in {<<"help">>, <<"?">>} THEN Detected("help", "none")
     ELSE IF lower = <<"settings">> THEN Detected("set_pref", "none")
     ELSE IF (Len(lower) >= 1 /\ lower[1] = "idea:") \/ HasWord(lower, "brainstorm")
       THEN Detected("create_task", "IDEA")
     ELSE IF Len(lower) >= 1 /\ StartsWith(lower[1], "done") THEN Detected("mark_done", "none")
     ELSE IF Len(lower) >= 1 /\ lower[1] = "snooze" THEN Detected("snooze", "none")
     ELSE IF Len(lower) >= 1 /\ lower[1] = "todo:" THEN Detected("create_task", "TODO")
     ELSE IF HasWord(lower, "reminder") THEN Detected("create_task", "TODO")
     ELSE IF HasWord(lower, "move") /\ HasMoveTarget(lower) THEN Detected("move_task", "none")
     ELSE Detected("create_task", "TODO")

\* detectIntentRuleBased: commands, done markers, snooze, ideas, todo:,
\* reminder requests, move commands, else create_task
detectIntentRuleBased(text) ==
  LET lower == toLowerCase(text)
  IN IF lower \in {<<"list">>, <<"tasks">>, <<"show", "tasks">>} THEN Detected("list_tasks", "none")
     ELSE IF lower \in {<<"ideas">>, <<"show", "ideas">>} THEN Detected("list_tasks", "IDEA")
     ELSE IF lower \in {<<"help">>, <<"?">>} THEN Detected("help", "none")
     ELSE IF lower = <<"settings">> THEN Detected("set_pref", "none")
     ELSE IF Len(lower) >= 1 /\ StartsWith(lower[1], "done") THEN Detected("mark_done", "none")
     ELSE IF Len(lower) >= 1 /\ lower[1] = "snooze" THEN Detected("snooze", "none")
     ELSE IF (Len(lower) >= 1 /\ lower[1] = "idea:") \/ HasWord(lower, "brainstorm")
       THEN Detected("create_task", "IDEA")
     ELSE IF Len(lower) >= 1 /\ lower[1] = "todo:" THEN Detected("create_task", "TODO")
     ELSE IF HasWord(lower, "reminder") THEN Detected("create_task", "TODO")
     ELSE IF HasWord(lower, "move") /\ HasMoveTarget(lower) THEN Detected("move_task", "none")
     ELSE Detected("create_task", "TODO")

\* the digits a word starts with (\d+), 0 for none
NumPrefix(w) ==
  CASE w = "2h" -> 2 [] w = "30" -> 30 [] w = "5pm" -> 5 [] OTHER -> 0

\* parseWithRules, snooze: /snooze\s*(\d+)?\s*(min|minute|h|hour|hr)?s?/ on
\* lower, whose first word is "snooze"; the unit is what follows the digits,
\* in the same word or at the start of the next one
SnoozeUnit(lower) ==
  IF lower[2] = "2h" THEN "h"
  ELSE IF lower[2] = "5pm" THEN "none"
  ELSE IF Len(lower) >= 3 /\ StartsWith(lower[3], "h") THEN "h"
  ELSE IF Len(lower) >= 3 /\ StartsWith(lower[3], "min") THEN "min"
  ELSE "none"

SnoozeMinutesOf(lower) ==
  IF Len(lower) >= 2 /\ NumPrefix(lower[2]) # 0
    THEN IF SnoozeUnit(lower) = "h" THEN NumPrefix(lower[2]) * 60 ELSE NumPrefix(lower[2])
    ELSE 15

\* parseWithRules, move: /move\s+(.+?)\s+to\s+(idea|todo|done)s?/, the places
\* <<i, j>> of "move" and "to" with words between them and a target after
MoveMatches(lower) ==
  {m \in (1..Len(lower)) \X (1..Len(lower)) :
     /\ lower[m[1]] = "move" /\ m[2] >= m[1] + 2 /\ lower[m[2]] = "to"
     /\ m[2] < Len(lower)
     /\ \E p \in {"idea", "todo", "done"} : StartsWith(lower[m[2] + 1], p)}

\* the leftmost match, its group 1 the shortest
moveMatch(lower) ==
  LET i == Min({m[1] : m \in MoveMatches(lower)})
      j == Min({m[2] : m \in {n \in MoveMatches(lower) : n[1] = i}})
  IN <<i, j>>

\* extractTaskTitle: the prefix todo: or idea: goes, and every " tomorrow"
\* after the first word (the words it stood between stay separate words here)
extractTaskTitle(text) ==
  LET stripped == IF Len(text) >= 1 /\ Lower(text[1]) \in {"todo:", "idea:"}
                    THEN Tail(text) ELSE text
  IN IF stripped = <<>> THEN <<>>
     ELSE <<stripped[1]>> \o SelectSeq(Tail(stripped), LAMBDA w : Lower(w) # "tomorrow")

\* what chrono-node reads in a text of the vocabulary: the time of "5pm" and
\* the day of "tomorrow"
PhraseOf(text) ==
  LET lower == toLowerCase(text)
  IN [hour |-> IF HasWord(lower, "5pm") THEN 5 ELSE 0, minute |-> 0,
      meridiem |-> IF HasWord(lower, "5pm") THEN "pm" ELSE "none",
      day |-> IF HasWord(lower, "tomorrow") THEN "tomorrow"
              ELSE IF HasWord(lower, "today") THEN "today" ELSE "none"]

\* parseWithRules
parseWithRules(text, zone, ref) ==
  LET lower == toLowerCase(text)
      d == detectIntentRuleBased(text)
  IN IF d.intent = "list_tasks"
       THEN Parsed("list_tasks", d.status, <<>>, NullDate, <<>>, 0, 95)
     ELSE IF d.intent = "help"
       THEN Parsed("help", "none", <<>>, NullDate, <<>>, 0, 95)
     ELSE IF d.intent = "set_pref" /\ lower = <<"settings">>
       THEN Parsed("set_pref", "none", <<>>, NullDate, <<>>, 0, 95)
     ELSE IF d.intent = "mark_done"
       THEN Parsed("mark_done", "none", <<>>, NullDate, Tail(lower), 0, 90)
     ELSE IF d.intent = "snooze"
       THEN Parsed("snooze", "none", <<>>, NullDate, <<>>, SnoozeMinutesOf(lower), 90)
     ELSE IF d.intent = "move_task" /\ MoveMatches(lower) # {}
       THEN LET m == moveMatch(lower)
            IN Parsed("move_task",
                      IF StartsWith(lower[m[2] + 1], "idea") THEN "IDEA" ELSE "TODO",
                      SubSeq(lower, m[1] + 1, m[2] - 1), NullDate, <<>>, 0, 85)
     ELSE IF d.intent = "create_task"
       THEN LET title == extractTaskTitle(text)
                reminderAt == parseDateTime(PhraseOf(text), <<zone, zone>>, ref)
            IN Parsed("create_task", d.status, IF title # <<>> THEN title ELSE text,
                      IF d.status = "IDEA" THEN NullDate ELSE reminderAt,
                      <<>>, 0, IF title # <<>> THEN 85 ELSE 70)
     ELSE Parsed("unknown", "IDEA", text, NullDate, <<>>, 0, 30)

\* a JSON answer without a confidence: undefined compares false
NoConfidence == -1

\* answers of the language model: an idea with a reminder, unknown intents with
\* and without a title, below and above the threshold, an intent the dispatcher
\* does not know with the rule-based confidence, an answer without confidence
AIResults ==
  {Parsed("create_task", "IDEA", <<"x">>, ClockStart + DaySec, <<>>, 0, 90),
   Parsed("unknown", "IDEA", <<"x">>, NullDate, <<>>, 0, 50),
   Parsed("unknown", "none", <<>>, NullDate, <<>>, 0, 50),
   Parsed("unknown", "IDEA", <<"x">>, NullDate, <<>>, 0, 70),
   Parsed("edit_task", "TODO", <<"x">>, NullDate, <<>>, 0, 30),
   Parsed("help", "none", <<>>, NullDate, <<>>, 0, NoConfidence)}

\* no client (no OPENAI_API_KEY), the request throws, the answer is empty or
\* not JSON, or the answer is a JSON object
Escalations ==
  {Escalation(k, NoResult) : k \in {"unavailable", "throws", "nothing"}}
    \cup {Escalation("json", v) : v \in AIResults}

\* parseWithAI: null without a client or content and on every exception
parseWithAI(ai) == IF ai.kind = "json" THEN ai.value ELSE NoResult

\* a parseMessage that asks the language model whatever the rules found
parseMessage_WithoutThreshold(text, zone, ref, ai) ==
  LET ruleBased == parseWithRules(text, zone, ref)
      aiResult == parseWithAI(ai)
  IN IF ai.kind = "unavailable"
       THEN ruleBased
     ELSE IF aiResult # NoResult /\ aiResult.confidence > ruleBased.confidence
       THEN aiResult
     ELSE ruleBased

\* a parseMessage that takes the escalation's result at equal confidence
parseMessage_AtEqualConfidence(text, zone, ref, ai) ==
  LET ruleBased == parseWithRules(text, zone, ref)
      aiResult == parseWithAI(ai)
  IN IF ruleBased.confidence >= AI_CONFIDENCE_THRESHOLD \/ ai.kind = "unavailable"
       THEN ruleBased
     ELSE IF aiResult # NoResult /\ aiResult.confidence >= ruleBased.confidence
       THEN aiResult
     ELSE ruleBased

\* parseMessage: the rule-based result when it is confident or no client
\* exists, else the escalation's when that is more confident
parseMessage(text, zone, ref, ai) ==
  LET ruleBased == parseWithRules(text, zone, ref)
      aiResult == parseWithAI(ai)
  IN IF ruleBased.confidence >= AI_CONFIDENCE_THRESHOLD \/ ai.kind = "unavailable"
       THEN ruleBased
     ELSE IF aiResult # NoResult /\ aiResult.confidence > ruleBased.confidence
       THEN aiResult
     ELSE ruleBased

\* a processIntent that saves an idea only below the rule-based confidence
processIntent_BelowRuleConfidence(parsed) ==
  IF parsed.intent = "create_task"
    THEN IF parsed.title = <<>>
           THEN [action |-> "invalid_task", created |-> NoTaskCreated]
           ELSE [action |-> "task_created",
                 created |-> [status |-> IF parsed.status = "none" THEN "TODO" ELSE parsed.status,
                              title |-> parsed.title,
                              reminder |-> parsed.reminderAt # NullDate]]
  ELSE IF parsed.intent \in {"list_tasks", "mark_done", "snooze", "move_task"}
    THEN [action |-> parsed.intent, created |-> NoTaskCreated]
  ELSE IF parsed.intent = "help" THEN [action |-> "help_sent", created |-> NoTaskCreated]
  ELSE IF parsed.intent = "set_pref"
    THEN [action |-> "settings_link_sent", created |-> NoTaskCreated]
  ELSE IF parsed.confidence < 30 /\ parsed.title # <<>>
    THEN [action |-> "saved_as_idea",
          created |-> [status |-> "IDEA", title |-> parsed.title, reminder |-> FALSE]]
  ELSE [action |-> "help_sent", created |-> NoTaskCreated]

\* processIntent: handleCreateTask (createTask schedules a reminder for a
\* reminderAt unless the status is DONE), the handlers of the other intents
\* (named by the intent), and for unknown and every other intent an idea or help
processIntent(parsed) ==
  IF parsed.intent = "create_task"
    THEN IF parsed.title = <<>>
           THEN [action |-> "invalid_task", created |-> NoTaskCreated]
           ELSE [action |-> "task_created",
                 created |-> [status |-> IF parsed.status = "none" THEN "TODO" ELSE parsed.status,
                              title |-> parsed.title,
                              reminder |-> parsed.reminderAt # NullDate]]
  ELSE IF parsed.intent \in {"list_tasks", "mark_done", "snooze", "move_task"}
    THEN [action |-> parsed.intent, created |-> NoTaskCreated]
  ELSE IF parsed.intent = "help" THEN [action |-> "help_sent", created |-> NoTaskCreated]
  ELSE IF parsed.intent = "set_pref"
    THEN [action |-> "settings_link_sent", created |-> NoTaskCreated]
  ELSE IF parsed.confidence < AI_CONFIDENCE_THRESHOLD /\ parsed.title # <<>>
    THEN [action |-> "saved_as_idea",
          created |-> [status |-> "IDEA", title |-> parsed.title, reminder |-> FALSE]]
  ELSE [action |-> "help_sent", created |-> NoTaskCreated]

\* handleInboundMessage for an onboarded user: parseMessage in the user's zone
\* at the current time, then processIntent. The language model behind
\* parseMessage answers in any of the ways of Escalations to a text the rules
\* are not confident about; to the other texts it would answer with an intent
\* and confidence 0.99. The escalation is recorded when parseMessage got as far
\* as calling it (rule-based confidence below the threshold, and a client).
handleInboundMessage ==
  /\ parse.result = NoResult
  /\ parse.text # <<>>
  /\ \E c \in Contexts :
       LET ruleBased == parseWithRules(parse.text, c[1], c[2])
           asked == ruleBased.confidence < AI_CONFIDENCE_THRESHOLD
       IN \E ai \in (IF asked THEN Escalations
                     ELSE {Escalation("json",
                                      Parsed("help", "none", <<>>, NullDate, <<>>, 0, 99))}) :
            LET parsed == parseMessage(parse.text, c[1], c[2], ai)
            IN parse' = [parse EXCEPT !.context = c,
                                      !.ai = IF asked /\ ai.kind # "unavailable"
                                               THEN ai ELSE NotCalled,
                                      !.result = parsed,
                                      !.outcome = processIntent(parsed)]
  /\ ParseUnchanged

NextParse ==
  \/ Type
  \/ handleInboundMessage

SpecParse == Init /\ [][NextParse]_vars

\* ---- agent/handler.ts: the ids of interactive replies ----
\* An id is a sequence of pieces: "_" and pieces without an underscore.

\* pieces of a task's id
IdPieces == {"a", "_", "15"}

\* a task gets its id, piece by piece
TypeId ==
  /\ parse.text = <<>> /\ parse.replyId = <<>>
  /\ Len(parse.taskId) < MaxIdLen
  /\ \E c \in IdPieces : parse' = [parse EXCEPT !.taskId = Append(@, c)]
  /\ ParseUnchanged

\* QUICK_REPLY_IDS: the buttons of a reminder and the rows of the snooze list
QUICK_REPLY_IDS ==
  {<<"action", "_", "done">>, <<"action", "_", "snooze">>, <<"action", "_", "edit">>,
   <<"snooze", "_", "15">>, <<"snooze", "_", "60">>, <<"snooze", "_", "180">>,
   <<"snooze", "_", "tomorrow">>}

\* what else a button payload can start with
OtherPrefixes ==
  {<<"snooze", "_", "30">>, <<"snooze">>, <<"action", "_", "delete">>, <<"action">>,
   <<"done">>, <<"remind", "_", "done">>}

\* sendReminderMessage, sendSnoozeOptions: `${QUICK_REPLY_IDS.X}_${task.id}`
ReplyIdOf(prefix, taskId) == prefix \o <<"_">> \o taskId

\* an interactive reply arrives: an id the system sent for the task, or another
\* payload
ReceiveReplyId ==
  /\ parse.taskId # <<>> /\ parse.replyId = <<>>
  /\ \E prefix \in QUICK_REPLY_IDS \cup OtherPrefixes :
       parse' = [parse EXCEPT !.replyId = ReplyIdOf(prefix, parse.taskId)]
  /\ ParseUnchanged

\* String.split('_'): the runs between underscores, empty runs included
RECURSIVE Split(_)
Split(id) ==
  IF \A i \in 1..Len(id) : id[i] # "_" THEN <<id>>
  ELSE LET k == Min({i \in 1..Len(id) : id[i] = "_"})
       IN <<SubSeq(id, 1, k - 1)>> \o Split(SubSeq(id, k + 1, Len(id)))

\* Array.join('_')
RECURSIVE Join(_)
Join(parts) ==
  IF parts = <<>> THEN <<>>
  ELSE IF Len(parts) = 1 THEN parts[1]
  ELSE parts[1] \o <<"_">> \o Join(Tail(parts))

\* handleInteractiveReply, from the id to the service call: [action, ...rest] =
\* replyId.split('_'); rest[0] is the sub-action or the duration, the task id
\* is rest.slice(1).join('_'); -1 stands for the minutes until getTomorrow10am
DecodeReply(replyId) ==
  LET parts == Split(replyId)
      action == parts[1]
      rest == Tail(parts)
      sub == IF rest = <<>> THEN <<>> ELSE rest[1]
      actualTaskId == IF rest = <<>> THEN <<>> ELSE Join(Tail(rest))
  IN IF action = <<"action">> /\ sub = <<"done">>
       THEN [action |-> "task_done", call |-> "markTaskDone", taskId |-> actualTaskId, minutes |-> 0]
     ELSE IF action = <<"action">> /\ sub = <<"snooze">>
       THEN [action |-> "snooze_options_sent", call |-> "sendSnoozeOptions",
             taskId |-> actualTaskId, minutes |-> 0]
     ELSE IF action = <<"action">> /\ sub = <<"edit">>
       THEN [action |-> "edit_instruction_sent", call |-> "none", taskId |-> <<>>, minutes |-> 0]
     ELSE IF action = <<"snooze">>
       THEN [action |-> "task_snoozed", call |-> "snoozeTask", taskId |-> actualTaskId,
             minutes |-> IF sub = <<"60">> THEN 60
                         ELSE IF sub = <<"180">> THEN 180
                         ELSE IF sub = <<"tomorrow">> THEN -1
                         ELSE DEFAULT_SNOOZE_MINUTES]
     ELSE [action |-> "unknown_reply", call |-> "none", taskId |-> <<>>, minutes |-> 0]

\* handleInteractiveReply reads the id
TapReply ==
  /\ parse.replyId # <<>> /\ parse.decoded = NoDecoded
  /\ parse' = [parse EXCEPT !.decoded = DecodeReply(parse.replyId)]
  /\ ParseUnchanged

NextReplyId ==
  \/ TypeId
  \/ ReceiveReplyId
  \/ TapReply

SpecReplyId == Init /\ [][NextReplyId]_vars

\* ---- routes/whatsapp.ts: POST /webhooks/whatsapp ----

HookUnchanged ==
  UNCHANGED <<now, tasks, reminders, jobs, wpc, op, sweep, opsLeft, sendAttempts, delivered,
              session, chat, interp, parse>>

\* the messages of a payload: texts and interactive replies whose handling
\* succeeds or fails, and types the route skips
MessageKinds == {"text", "text_fails", "interactive", "interactive_throws", "image"}

Payloads == UNION {[1..n -> MessageKinds] : n \in 0..MaxMessages}

\* a route that has not replied when it starts processing
replySend_Deferred(status) == 0

\* reply.send('EVENT_RECEIVED')
replySend(status) == status

\* the route handler up to its return: 401 for a signature that does not
\* verify; else the reply, then processWebhook is called and not awaited
PostWebhook ==
  /\ hook.pc = "idle"
  /\ \E signature \in {"none", "valid", "invalid"},
        shape \in {"messages", "foreign", "malformed"}, ms \in Payloads :
       /\ shape # "messages" => ms = <<>>
       /\ IF signature = "invalid"
            THEN hook' = [hook EXCEPT !.pc = "done", !.status = 401]
            ELSE hook' = [hook EXCEPT !.pc = "processing", !.shape = shape, !.messages = ms,
                                      !.next = 1, !.status = replySend(200)]
  /\ HookUnchanged

\* processWebhook: returns for a payload of another object, rejects on a
\* payload without entries (the route's .catch logs it), else handles the
\* messages one by one
processWebhook ==
  /\ hook.pc = "processing"
  /\ hook.shape # "messages" \/ hook.next > Len(hook.messages)
  /\ hook' = [hook EXCEPT !.pc = "done",
                          !.logged = IF hook.shape = "malformed" THEN @ + 1 ELSE @]
  /\ HookUnchanged

\* processWebhook, one message: handleInboundMessage catches its own failures;
\* handleInteractiveReply can reject after updateLastInbound, which the try/catch
\* around the message logs; other message types are skipped
processMessage ==
  /\ hook.pc = "processing" /\ hook.shape = "messages"
  /\ hook.next <= Len(hook.messages)
  /\ LET m == hook.messages[hook.next]
     IN hook' = [hook EXCEPT !.next = @ + 1,
                             !.effects = IF m = "image" THEN @ ELSE @ + 1,
                             !.logged = IF m = "interactive_throws" THEN @ + 1 ELSE @]
  /\ HookUnchanged

NextWebhook ==
  \/ PostWebhook
  \/ processWebhook
  \/ processMessage

SpecWebhook == Init /\ [][NextWebhook]_vars

\* ---- agent/handler.ts: mark_done and snooze for one user, time in ticks ----
\* per task: its status and reminderAt, whether it has a SCHEDULED reminder and
\* that reminder's scheduledAt, and the sentAt of its latest SENT reminder; a
\* handler runs from its message to its reply
ChatUnchanged ==
  UNCHANGED <<now, tasks, reminders, jobs, wpc, op, sweep, opsLeft, sendAttempts, delivered,
              session, interp, parse, hook>>

ChatTick ==
  /\ chat.clock < MaxChatTime
  /\ chat' = [chat EXCEPT !.clock = @ + 1]
  /\ ChatUnchanged

\* handleCreateTask: createTask({userId: user.id, ...}), with or without a
\* reminder (due in less than a tick)
handleCreateTask(user) ==
  /\ \E t \in ChatTaskIds, withReminder \in BOOLEAN :
       /\ chat.task[t].status = "none"
       /\ chat' = [chat EXCEPT !.task[t] =
                    [status |-> "TODO", scheduled |-> withReminder, sentAt |-> NullDate,
                     reminderAt |-> IF withReminder THEN chat.clock ELSE NullDate,
                     scheduledAt |-> IF withReminder THEN chat.clock ELSE NullDate,
                     owner |-> user]]
  /\ ChatUnchanged

\* the worker delivers the task's SCHEDULED reminder when it is due: state
\* SENT, sentAt = now
ReminderSent ==
  /\ \E t \in ChatTaskIds :
       /\ chat.task[t].status = "TODO" /\ chat.task[t].scheduled
       /\ chat.task[t].scheduledAt <= chat.clock
       /\ chat' = [chat EXCEPT !.task[t].scheduled = FALSE, !.task[t].scheduledAt = NullDate,
                                !.task[t].sentAt = chat.clock]
  /\ ChatUnchanged

\* parsed.snoozeMinutes: undefined, the default, an hour, the sentinel
SnoozeMinutes == {NoMinutes, DEFAULT_SNOOZE_MINUTES, 60, -1}

\* an inbound message parsed as mark_done or snooze, with or without a taskId;
\* the reply is the result of the latest handler run
Receive(user) ==
  /\ chat.message = NoMessage
  /\ \E h \in {"mark_done", "snooze"}, id \in ChatTaskIds \cup {NoTask}, m \in SnoozeMinutes :
       /\ h = "mark_done" => m = NoMinutes
       /\ chat' = [chat EXCEPT !.message = [handler |-> h, taskId |-> id, snoozeMinutes |-> m,
                                             button |-> "none", from |-> user],
                                !.reply = NoReply]
  /\ ChatUnchanged

\* getRecentSentReminder(userId): state SENT, sentAt >= now - 5 min, newest
\* first; the tasks findFirst may return (none: null)
getRecentSentReminder ==
  LET recent == {t \in ChatTaskIds : /\ chat.task[t].owner = chat.message.from
                                      /\ chat.task[t].sentAt # NullDate
                                      /\ chat.task[t].sentAt >= chat.clock - RecentTicks}
  IN {t \in recent : \A u \in recent : chat.task[u].sentAt <= chat.task[t].sentAt}

\* getTasksByUser(userId, {status: 'TODO'})
TodoTasks ==
  {t \in ChatTaskIds : chat.task[t].owner = chat.message.from /\ chat.task[t].status = "TODO"}

\* a handleMarkDone that takes the first TODO task when several exist
MarkDoneTarget_GuessFirst(taskId) ==
  IF taskId # NoTask THEN {taskId}
  ELSE IF getRecentSentReminder # {} THEN getRecentSentReminder
  ELSE IF TodoTasks # {} THEN {Min(TodoTasks)}
  ELSE {}

\* handleMarkDone, the target: parsed.taskId, else the recent sent reminder's
\* task, else the only TODO task
MarkDoneTarget(taskId) ==
  IF taskId # NoTask THEN {taskId}
  ELSE IF getRecentSentReminder # {} THEN getRecentSentReminder
  ELSE IF Cardinality(TodoTasks) = 1 THEN TodoTasks
  ELSE {}

\* handleSnooze, the target: parsed.taskId, else the recent sent reminder's task
SnoozeTarget(taskId) ==
  IF taskId # NoTask THEN {taskId}
  ELSE getRecentSentReminder

\* the handler sent its message and returned {success, action}
Replied(action, t) == [action |-> action, target |-> t, messaged |-> TRUE, threw |-> FALSE]

\* handleInboundMessage, the catch: console.error, then {success: false,
\* action: 'error', error}; nothing is sent
Caught == [action |-> "error", target |-> NoTask, messaged |-> FALSE, threw |-> FALSE]

\* handleMarkDone: resolve, then markTaskDone(taskId) (status DONE,
\* cancelTaskReminders; throws 'Task not found' for an id without a task) or
\* the message that asks which task
handleMarkDone ==
  /\ chat.message.handler = "mark_done"
  /\ IF MarkDoneTarget(chat.message.taskId) = {}
       THEN chat' = [chat EXCEPT !.message = NoMessage,
                      !.reply = Replied(IF TodoTasks = {} THEN "no_tasks" ELSE "ambiguous_task",
                                        NoTask)]
       ELSE \E t \in MarkDoneTarget(chat.message.taskId) :
              IF chat.task[t].status = "none"
                THEN chat' = [chat EXCEPT !.message = NoMessage,
                               !.reply = Caught]
                ELSE chat' = [chat EXCEPT !.message = NoMessage,
                               !.task[t].status = "DONE", !.task[t].scheduled = FALSE,
                               !.task[t].scheduledAt = NullDate,
                               !.reply = Replied("task_done", t)]
  /\ ChatUnchanged

\* handleSnooze: `!parsed.snoozeMinutes || parsed.snoozeMinutes === DEFAULT_SNOOZE_MINUTES`
ShowsSnoozeOptions(m) == m = NoMinutes \/ m = DEFAULT_SNOOZE_MINUTES

\* handleSnooze: minutes = parsed.snoozeMinutes, or for -1 the minutes until
\* getTomorrow10am (the user's day starts at tick 0, zone UTC)
SnoozeDuration(m) ==
  IF m = -1
    THEN LET t == ClockStart + chat.clock * TickMinutes * MinuteSec
         IN CeilMinutes(getTomorrow10am(t, <<0, 0>>) - t)
    ELSE m

\* a snoozeTask that leaves task.reminderAt as it was
snoozeTask_KeepsTaskTime(task, minutes) ==
  [task EXCEPT !.scheduled = TRUE,
               !.scheduledAt = chat.clock + minutes \div TickMinutes]

\* snoozeTask(taskId, minutes): newReminderAt = now + minutes; the SCHEDULED
\* reminders are cancelled, task.reminderAt = newReminderAt, a new SCHEDULED
\* reminder at newReminderAt
snoozeTask(task, minutes) ==
  [task EXCEPT !.scheduled = TRUE,
               !.scheduledAt = chat.clock + minutes \div TickMinutes,
               !.reminderAt = chat.clock + minutes \div TickMinutes]

\* handleSnooze: resolve, then the snooze options, or snoozeTask(taskId, minutes)
\* (the task update throws for an id without a task)
handleSnooze ==
  /\ chat.message.handler = "snooze"
  /\ IF SnoozeTarget(chat.message.taskId) = {}
       THEN chat' = [chat EXCEPT !.message = NoMessage,
                      !.reply = Replied("no_reminder_to_snooze", NoTask)]
       ELSE \E t \in SnoozeTarget(chat.message.taskId) :
              IF ShowsSnoozeOptions(chat.message.snoozeMinutes)
                THEN chat' = [chat EXCEPT !.message = NoMessage,
                               !.reply = Replied("snooze_options_sent", t)]
              ELSE IF chat.task[t].status = "none"
                THEN chat' = [chat EXCEPT !.message = NoMessage,
                               !.reply = Caught]
              ELSE chat' = [chat EXCEPT !.message = NoMessage,
                             !.task[t] = snoozeTask(@, SnoozeDuration(chat.message.snoozeMinutes)),
                             !.reply = Replied("task_snoozed", t)]
  /\ ChatUnchanged

\* the ids on the reminder buttons and the snooze list, and any other id
Buttons == {"action_done", "action_snooze", "action_edit", "snooze", "other"}

\* an interactive reply arrives: a button of a task's reminder or a row of its
\* snooze list (1 hour, tomorrow), the task possibly gone since
ReceiveReply ==
  /\ chat.message = NoMessage
  /\ \E b \in Buttons, id \in ChatTaskIds, m \in {NoMinutes, 60, -1}, user \in Users :
       /\ (b = "snooze") = (m # NoMinutes)
       /\ chat' = [chat EXCEPT !.message = [handler |-> "interactive", taskId |-> id,
                                             snoozeMinutes |-> m, button |-> b,
                                             from |-> user],
                                !.reply = NoReply]
  /\ ChatUnchanged

\* handleInteractiveReply has no try/catch: a rejected service call rejects it
Thrown == [action |-> "none", target |-> NoTask, messaged |-> FALSE, threw |-> TRUE]

\* handleInteractiveReply: the final return, no message
UnknownReply == [action |-> "unknown_reply", target |-> NoTask, messaged |-> FALSE, threw |-> FALSE]

\* handleInteractiveReply: switch on the decoded action; markTaskDone and
\* snoozeTask throw for an id without a task
handleInteractiveReply ==
  /\ chat.message.handler = "interactive"
  /\ LET t == chat.message.taskId
         b == chat.message.button
     IN IF b = "action_done"
          THEN IF chat.task[t].status = "none"
                 THEN chat' = [chat EXCEPT !.message = NoMessage, !.reply = Thrown]
                 ELSE chat' = [chat EXCEPT !.message = NoMessage,
                                !.task[t].status = "DONE", !.task[t].scheduled = FALSE,
                                !.task[t].scheduledAt = NullDate,
                                !.reply = Replied("task_done", t)]
        ELSE IF b = "action_snooze"
          THEN chat' = [chat EXCEPT !.message = NoMessage,
                         !.reply = Replied("snooze_options_sent", t)]
        ELSE IF b = "action_edit"
          THEN chat' = [chat EXCEPT !.message = NoMessage,
                         !.reply = Replied("edit_instruction_sent", t)]
        ELSE IF b = "snooze"
          THEN IF chat.task[t].status = "none"
                 THEN chat' = [chat EXCEPT !.message = NoMessage, !.reply = Thrown]
                 ELSE chat' = [chat EXCEPT !.message = NoMessage,
                                !.task[t] = snoozeTask(@, SnoozeDuration(chat.message.snoozeMinutes)),
                                !.reply = Replied("task_snoozed", t)]
        ELSE chat' = [chat EXCEPT !.message = NoMessage, !.reply = UnknownReply]
  /\ ChatUnchanged

NextHandler ==
  \/ ChatTick
  \/ handleCreateTask("user")
  \/ ReminderSent
  \/ Receive("user")
  \/ handleMarkDone
  \/ handleSnooze

SpecHandler == Init /\ [][NextHandler]_vars

\* the dispatcher for text messages and interactive replies, the clock standing
NextDispatch ==
  \/ \E user \in Users : handleCreateTask(user)
  \/ \E user \in Users : Receive(user)
  \/ handleMarkDone
  \/ handleSnooze
  \/ ReceiveReply
  \/ handleInteractiveReply

SpecDispatch == Init /\ [][NextDispatch]_vars

\* the same, with a queue that can lose jobs
NextOutage == Next \/ JobLost

SpecOutage == Init /\ [][NextOutage]_vars

\* ---------------------------------------------------------------------
\* C1: at every reachable state every task has at most one reminder in
\* state SCHEDULED.
C1_AtMostOneScheduled ==
  \A t \in TaskIds : Cardinality(ScheduledOf(t)) <= 1

\* ---------------------------------------------------------------------
\* C2: for every reminder at most one messaging send succeeds, whatever the
\* queue retries, the sweeper and a throwing step after the send do.
C2_AtMostOneSendSucceeds ==
  \A r \in ReminderIds : delivered[r] <= 1

\* ---------------------------------------------------------------------
\* C3: a delivery attempt that finds its reminder missing or not SCHEDULED
\* sends nothing and changes no field of any reminder.
AttemptStarts(r) ==
  /\ Runnable(r) /\ wpc[r] = "idle"
  /\ jobs'[r].st \in {"active", "completed"}

AllowedTransition(from, to) ==
  \/ from = to
  \/ from = "SCHEDULED" /\ to \in {"SENT", "CANCELED", "FAILED"}
  \/ from = "SENT" /\ to \in {"ACKED_DONE", "ACKED_SNOOZE"}

C4_StateMachine ==
  [][\A r \in RIds : AllowedTransition(reminders[r].state, reminders'[r].state)]_vars

\* ---------------------------------------------------------------------
\* C5: a reminder that a user action cancelled while a delivery attempt for it
\* was in flight stays CANCELED when the attempt writes its result.
AttemptInFlight(r) == wpc[r] \in {"send", "markSent", "log", "catch"}

C5_CancelSurvivesAttempt ==
  [][\A r \in RIds :
       (AttemptInFlight(r) /\ reminders[r].state = "CANCELED")
         => reminders'[r].state = "CANCELED"]_vars

\* ---------------------------------------------------------------------
\* C7: the number of messaging send attempts for one reminder never exceeds
\* MAX_REMINDER_RETRIES, however often the queue retries its job or the
\* sweeper re-enqueues it, and no send starts once retriesCount is at the maximum.
C7_SendAttemptsBounded ==
  \A r \in ReminderIds :
    /\ sendAttempts[r] <= MAX_REMINDER_RETRIES
    /\ wpc[r] = "send" => reminders[r].retriesCount < MAX_REMINDER_RETRIES

\* three sends failed, the job was re-enqueued and the next run marked FAILED
C7_Witness ==
  \E r \in RIds :
    /\ sendAttempts[r] = MAX_REMINDER_RETRIES /\ delivered[r] = 0
    /\ reminders[r].state = "FAILED"

\* ---------------------------------------------------------------------
\* C8: the catch block of a delivery attempt leaves the reminder SCHEDULED with
\* scheduledAt unchanged, sets lastError, adds exactly 1 to retriesCount and
\* re-throws: the job is not completed but retried (or failed when the queue's
\* attempts are used up); it never marks the reminder FAILED.
CatchRuns(r) == wpc[r] = "catch" /\ wpc'[r] = "idle"

C8_FailedSendKeepsScheduled ==
  [][\A r \in RIds :
       CatchRuns(r) =>
         /\ reminders'[r].state = "SCHEDULED"
         /\ reminders'[r].scheduledAt = reminders[r].scheduledAt
         /\ reminders'[r].retriesCount = reminders[r].retriesCount + 1
         /\ reminders'[r].lastError # "none"
         /\ jobs'[r].st = IF jobs[r].attemptsMade + 1 < QueueAttempts THEN "delayed" ELSE "failed"
         /\ jobs'[r].st = "delayed" => jobs'[r].attemptsMade = jobs[r].attemptsMade + 1]_vars

\* one send failed and was recorded; the job waits for its retry
C8_Witness ==
  \E r \in RIds :
    /\ sendAttempts[r] = 1 /\ delivered[r] = 0
    /\ reminders[r].state = "SCHEDULED" /\ reminders[r].retriesCount = 1
    /\ reminders[r].lastError = "error"
    /\ jobs[r].st = "delayed" /\ jobs[r].attemptsMade = 1

\* ---------------------------------------------------------------------
\* C9: a delivery attempt that reads a SCHEDULED reminder whose task is missing
\* or DONE sets the reminder to CANCELED and makes no messaging call.
C9_NoSendForDoneOrDeletedTask ==
  [][\A r \in RIds :
       /\ (AttemptStarts(r) /\ reminders[r].state = "SCHEDULED"
             /\ (~TaskLive(reminders[r].taskId) \/ tasks[reminders[r].taskId].status = "DONE"))
            => wpc'[r] = "cancel" /\ sendAttempts' = sendAttempts
       /\ (wpc[r] = "cancel" /\ wpc'[r] # "cancel")
            => /\ reminders'[r].state = "CANCELED"
               /\ sendAttempts' = sendAttempts /\ delivered' = delivered
               /\ wpc'[r] = "idle" /\ jobs'[r].st = "completed"]_vars

\* an attempt ended in the cancel branch for a task that is DONE, nothing was sent
C9_Witness ==
  \E r \in RIds :
    /\ jobs[r].st = "completed" /\ jobs[r].result = "canceled"
    /\ reminders[r].state = "CANCELED" /\ sendAttempts[r] = 0
    /\ TaskLive(reminders[r].taskId) /\ tasks[reminders[r].taskId].status = "DONE"

\* ---------------------------------------------------------------------
\* C10: when markTaskDone, deleteTask or an update that leaves the task without
\* a reminder time returns, no reminder of the task is SCHEDULED and no delayed
\* job of such a reminder is left in the queue, whatever was interleaved.
CancellingCallReturns ==
  /\ op'.name = "idle"
  /\ \/ /\ op.name \in {"moveTask", "updateTask"}
        /\ ~WantsReminder(op.snapAt, op.snapSt)
        /\ op.pc \in {"find", "cancelUpdate"}
     \/ /\ op.name = "deleteTask"
        /\ op.pc = "delete" /\ TaskLive(op.t)

C10_CancelledOnCompletion ==
  [][CancellingCallReturns =>
       \A r \in RIds :
         reminders'[r].taskId = op.t =>
           /\ reminders'[r].state # "SCHEDULED"
           /\ jobs'[r].st # "delayed"]_vars

\* ---------------------------------------------------------------------
\* C6: a reminder whose sends all failed, with retriesCount at
\* MAX_REMINDER_RETRIES and overdue by the sweeper's grace period, does not stay
\* SCHEDULED forever: worker and sweeper running fairly, it leaves SCHEDULED.
AtRetryCeiling(r) ==
  /\ r \in RIds
  /\ reminders[r].state = "SCHEDULED"
  /\ reminders[r].retriesCount >= MAX_REMINDER_RETRIES
  /\ reminders[r].scheduledAt <= now - GraceTicks
  /\ delivered[r] = 0

C6_RetryCeilingReached ==
  \A r \in ReminderIds :
    AtRetryCeiling(r) ~> (r \in RIds /\ reminders[r].state # "SCHEDULED")

\* ---------------------------------------------------------------------
\* C11: when an operation that changes a task's reminder time (updateTask,
\* snoozeTask) returns after enqueueing the new job, the job of the new
\* reminder is the only pending job of the task: no job of an older reminder
\* of the task is still waiting to run.
RescheduleReturns ==
  /\ op.name \in {"updateTask", "snoozeTask"}
  /\ op.pc = "add" /\ op'.name = "idle"

C11_OnePendingJobAfterReschedule ==
  [][RescheduleReturns =>
       /\ jobs'[op.r].st # "none"
       /\ \A r \in RIds :
            (r # op.r /\ reminders'[r].taskId = op.t) => jobs'[r].st # "delayed"]_vars

\* ---------------------------------------------------------------------
\* C12: whenever the sweeper puts a job into the queue for a reminder, that
\* reminder is, at that moment, SCHEDULED and its scheduledAt lies at least the
\* grace period in the past.
SweeperEnqueues(r) ==
  /\ sweep.running /\ sweep' # sweep
  /\ jobs[r].st = "none" /\ jobs'[r].st = "delayed"

C12_SweeperOnlyStuckReminders ==
  [][\A r \in RIds :
       SweeperEnqueues(r) =>
         /\ reminders[r].state = "SCHEDULED"
         /\ reminders[r].scheduledAt <= now - GraceTicks]_vars

\* C12, as the code has it: a sweeper run takes exactly the reminders that are
\* SCHEDULED and overdue by the grace period when it scans, and it puts a job
\* into the queue only for a reminder of that scan, which is still overdue by
\* the grace period then; its state may have changed since the scan.
SweeperScans == ~sweep.running /\ sweep' # sweep

C12_SweeperOnlyScannedStuck ==
  [][/\ SweeperScans =>
          sweep'.todo = {r \in RIds : /\ reminders[r].state = "SCHEDULED"
                                      /\ reminders[r].scheduledAt <= now - GraceTicks}
     /\ \A r \in RIds :
          SweeperEnqueues(r) =>
            /\ r \in sweep.todo
            /\ reminders[r].scheduledAt <= now - GraceTicks]_vars

\* the sweeper has put back the job of a reminder that was cancelled after the scan
C12_Witness ==
  \E r \in RIds :
    /\ reminders[r].state = "CANCELED"
    /\ jobs[r].st = "delayed" /\ jobs[r].attemptsMade = 0
    /\ reminders[r].scheduledAt <= now - GraceTicks
    /\ ~sweep.running

\* ---------------------------------------------------------------------
\* C13: a step of a sweeper run (the scan, or the enqueue of one stuck
\* reminder) changes no reminder row and no task row, sends nothing and starts
\* no delivery attempt; only the queue and the run's own position change.
SweeperSteps == sweep' # sweep

C13_SweeperOnlyTouchesQueue ==
  [][SweeperSteps =>
       /\ reminders' = reminders
       /\ tasks' = tasks
       /\ sendAttempts' = sendAttempts /\ delivered' = delivered
       /\ wpc' = wpc /\ op' = op
       /\ \A r \in ReminderIds :
            jobs'[r] # jobs[r] => (jobs[r].st = "none" /\ jobs'[r].st = "delayed")]_vars

\* a sweeper run has put back the job that a cancellation in progress had
\* just removed; the reminder's row is as it was
C13_Witness ==
  /\ op.pc = "cancelUpdate" /\ ~sweep.running
  /\ jobs[op.r].st = "delayed" /\ jobs[op.r].runAt = now
  /\ reminders[op.r].state = "SCHEDULED" /\ reminders[op.r].scheduledAt < now
  /\ reminders[op.r].retriesCount = 0

\* ---------------------------------------------------------------------
\* C14: a reminder that is SCHEDULED, overdue by the grace period and without a
\* job that will run (no job, or a job whose queue attempts are used up) is
\* picked up again: with the sweeper and the worker running fairly it
\* eventually is SENT, CANCELED or FAILED.
StuckWithoutJob(r) ==
  /\ r \in RIds
  /\ reminders[r].state = "SCHEDULED"
  /\ reminders[r].scheduledAt <= now - GraceTicks
  /\ jobs[r].st \in {"none", "failed"}
  /\ wpc[r] = "idle"

C14_LostJobRecovered ==
  \A r \in ReminderIds :
    StuckWithoutJob(r) ~>
      (r \in RIds /\ reminders[r].state \in {"SENT", "CANCELED", "FAILED"})

\* ---------------------------------------------------------------------
\* C15: the queue never holds more than one job per reminder: the job id is
\* reminder-<id>, and an enqueue for a reminder whose job exists (by the
\* sweeper, by rescheduleReminder) adds no second job and leaves the existing
\* job as it is.
EnqueueOnExisting(r) ==
  /\ jobs[r].st # "none"
  /\ \/ sweep.running /\ sweep' # sweep /\ r = Min(sweep.todo)
     \/ op.pc = "add" /\ op'.name = "idle" /\ op.r = r

C15_OneJobPerReminder ==
  [][\A r \in ReminderIds :
       /\ jobs[r].extra = 0 /\ jobs'[r].extra = 0
       /\ EnqueueOnExisting(r) => jobs'[r] = jobs[r]]_vars

\* rescheduleReminder's add met the job the sweeper had put back in the
\* meantime: there is one job, still with the run time the sweeper gave it
C15_Witness ==
  \E r \in RIds :
    /\ op.name = "idle"
    /\ jobs[r].st = "delayed" /\ jobs[r].attemptsMade = 0 /\ jobs[r].extra = 0
    /\ jobs[r].runAt < reminders[r].scheduledAt

\* ---------------------------------------------------------------------
\* C16: a reminder message goes out as SESSION_FREEFORM exactly when the
\* user's lastInboundAt is set and at most the 24-hour window before the send,
\* as TEMPLATE otherwise, and markReminderSent records the mode that was used.
SendDecides ==
  /\ session.pc = "idle" /\ session' # session /\ session'.event = "send"
  /\ session'.hour = session.hour /\ session'.lastInboundAt = session.lastInboundAt

C16_DeliveryMode ==
  [][/\ SendDecides =>
          session'.used =
            IF /\ session.lastInboundAt # NullDate
               /\ session.hour - session.lastInboundAt <= SessionWindowHours
              THEN "SESSION_FREEFORM" ELSE "TEMPLATE"
     /\ (session.pc = "markSent" /\ session'.pc = "idle") =>
          session'.deliveryMode = session.used]_vars

\* a reminder sent exactly 24 hours after the last inbound message was
\* recorded as SESSION_FREEFORM
C16_Witness ==
  /\ session.pc = "idle" /\ session.deliveryMode = "SESSION_FREEFORM"
  /\ session.lastInboundAt # NullDate
  /\ session.hour - session.lastInboundAt = SessionWindowHours

\* ---------------------------------------------------------------------
\* C17: no message is sent for a reminder before the reminder's current
\* scheduledAt, also when rescheduleReminder has moved the reminder to a later
\* time while an earlier job for it existed.
SendStarts(r) == sendAttempts'[r] = sendAttempts[r] + 1

C17_NoSendBeforeScheduledAt ==
  [][\A r \in RIds : SendStarts(r) => reminders[r].scheduledAt <= now]_vars

\* ---------------------------------------------------------------------
\* C18: a reminder whose time is already in the past when the task acquires
\* it (the row is about to be created with scheduledAt before now) does not
\* fire: from then on no message is ever delivered for it.
AcquiresPast(r) ==
  /\ op.pc = "create" /\ op.at # NoTime /\ op.at < now
  /\ r = Len(reminders) + 1

C18_PastReminderDoesNotFire ==
  \A r \in ReminderIds : [](AcquiresPast(r) => [](delivered[r] = 0))

\* ---------------------------------------------------------------------
\* C19: mark_done takes the explicit taskId, else the task of the most
\* recently sent reminder of the last 5 minutes, else the only TODO task; with
\* none of these and several TODO tasks it changes no task and no reminder and
\* asks which task; a resolved task becomes DONE and has no SCHEDULED reminder.
MarkDoneRuns == chat.message.handler = "mark_done" /\ chat'.message = NoMessage

RecentlySent(t) ==
  /\ chat.task[t].sentAt # NullDate
  /\ chat.task[t].sentAt >= chat.clock - RecentTicks

C19_MarkDoneResolution ==
  [][MarkDoneRuns =>
       LET id == chat.message.taskId
           recent == {t \in ChatTaskIds : RecentlySent(t)}
           todo == {t \in ChatTaskIds : chat.task[t].status = "TODO"}
           t == chat'.reply.target
       IN /\ (id # NoTask /\ chat.task[id].status # "none") => t = id
          /\ (id # NoTask /\ chat.task[id].status = "none") =>
               (t = NoTask /\ chat'.task = chat.task)
          /\ (id = NoTask /\ recent # {}) =>
               (t \in recent /\ \A u \in recent : chat.task[u].sentAt <= chat.task[t].sentAt)
          /\ (id = NoTask /\ recent = {} /\ Cardinality(todo) = 1) => t \in todo
          /\ (id = NoTask /\ recent = {} /\ Cardinality(todo) > 1) =>
               /\ t = NoTask /\ chat'.reply.action = "ambiguous_task"
               /\ chat'.task = chat.task
          /\ t # NoTask =>
               /\ chat'.reply.action = "task_done"
               /\ chat'.task[t].status = "DONE" /\ ~chat'.task[t].scheduled
               /\ \A u \in ChatTaskIds \ {t} : chat'.task[u] = chat.task[u]]_vars

\* mark_done without a taskId was answered with the question which task:
\* two TODO tasks, one with a SCHEDULED reminder, no reminder sent recently
C19_Witness ==
  /\ chat.reply.action = "ambiguous_task" /\ chat.message = NoMessage
  /\ \A t \in 1..2 : chat.task[t].status = "TODO"
  /\ chat.task[1].scheduled
  /\ \A t \in ChatTaskIds : ~RecentlySent(t)

\* ---------------------------------------------------------------------
\* C20: in every user state and for every parsed taskId (given or not), the
\* snooze handler chooses the task the mark_done handler would choose,
\* including the fallback to the only TODO task.
C20_SnoozeResolvesLikeMarkDone ==
  \A id \in ChatTaskIds \cup {NoTask} : SnoozeTarget(id) = MarkDoneTarget(id)

\* ---------------------------------------------------------------------
\* C30: getTomorrow10am returns a time whose wall clock in the user's zone
\* shows hour 10, minute 0 on the calendar day after the current local day; the
\* result is later than now, so the minute count of a "tomorrow" snooze is
\* positive.
TomorrowComputed ==
  /\ interp'.tomorrow # NullDate
  /\ interp'.tomorrow # interp.tomorrow \/ interp'.minutes # interp.minutes

C30_Tomorrow10am ==
  [][TomorrowComputed =>
       LET wallNow == interp.clock + interp.zone[1]
           wallThen == interp'.tomorrow + interp.zone[2]
       IN /\ wallThen \div DaySec = wallNow \div DaySec + 1
          /\ (wallThen % DaySec) \div HourSec = 10
          /\ (wallThen % HourSec) \div MinuteSec = 0
          /\ interp'.tomorrow > interp.clock
          /\ interp'.minutes > 0
          /\ interp'.minutes * MinuteSec >= interp'.tomorrow - interp.clock
          /\ (interp'.minutes - 1) * MinuteSec < interp'.tomorrow - interp.clock]_vars

\* late in the local evening of a zone ahead of UTC, the result is tomorrow
\* morning there, less than 11 hours away
C30_Witness ==
  /\ interp.tomorrow = getTomorrow10am(interp.clock, interp.zone)
  /\ interp.zone[1] > 0
  /\ (interp.clock + interp.zone[1]) % DaySec > 23 * HourSec
  /\ interp.minutes < 11 * 60

\* ---------------------------------------------------------------------
\* C21: a snooze without a duration or with the default 15 sends only the
\* snooze options and changes no task and no reminder; any other duration
\* leaves the task with one SCHEDULED reminder at now + snoozeMinutes (for the
\* sentinel -1: the next day, 10:00) and task.reminderAt at the same time.
SnoozeRuns == chat.message.handler = "snooze" /\ chat'.message = NoMessage

C21_SnoozeDispatch ==
  [][(SnoozeRuns /\ chat'.reply.action \in {"snooze_options_sent", "task_snoozed"}) =>
       LET m == chat.message.snoozeMinutes
           t == chat'.reply.target
           newAt == IF m = -1
                      THEN (DaySec + DEFAULT_REMINDER_HOUR * HourSec) \div (TickMinutes * MinuteSec)
                      ELSE chat.clock + m \div TickMinutes
       IN /\ (m = NoMinutes \/ m = 15) =>
               (chat'.reply.action = "snooze_options_sent" /\ chat'.task = chat.task)
          /\ (m # NoMinutes /\ m # 15) =>
               /\ chat'.reply.action = "task_snoozed"
               /\ chat'.task[t].scheduled
               /\ chat'.task[t].scheduledAt = newAt
               /\ chat'.task[t].reminderAt = newAt
               /\ chat'.task[t].status = chat.task[t].status
               /\ chat'.task[t].sentAt = chat.task[t].sentAt
               /\ \A u \in ChatTaskIds \ {t} : chat'.task[u] = chat.task[u]]_vars

\* "snooze tomorrow" (-1) moved a task whose reminder had been sent to the next
\* day at 10:00
C21_Witness ==
  \E t \in ChatTaskIds :
    /\ chat.reply.action = "task_snoozed" /\ chat.reply.target = t
    /\ chat.task[t].sentAt # NullDate /\ chat.task[t].scheduled
    /\ chat.task[t].scheduledAt = 408 /\ chat.task[t].reminderAt = 408

\* ---------------------------------------------------------------------
\* C22: every failure inside a dispatcher action, for a text message and for
\* an interactive reply alike (here: the task id names no task, so the service
\* call throws), ends with a message to the user and a returned result; the
\* handler never rejects and never ends without a message.
ServiceCallFails ==
  LET m == chat.message
  IN \/ /\ m.handler = "mark_done"
        /\ \E t \in MarkDoneTarget(m.taskId) : chat.task[t].status = "none"
     \/ /\ m.handler = "snooze" /\ ~ShowsSnoozeOptions(m.snoozeMinutes)
        /\ \E t \in SnoozeTarget(m.taskId) : chat.task[t].status = "none"
     \/ /\ m.handler = "interactive" /\ m.button \in {"action_done", "snooze"}
        /\ chat.task[m.taskId].status = "none"

C22_FailuresReachTheUser ==
  [][(chat.message # NoMessage /\ chat'.message = NoMessage /\ ServiceCallFails) =>
       (~chat'.reply.threw /\ chat'.reply.messaged /\ chat'.reply.action # "none")]_vars

\* an interactive reply for a task that is gone rejected the handler
C22_InteractiveRejects == chat.reply.threw

\* ---------------------------------------------------------------------
\* C23: the interpreter never fails: every text gets a result; when the
\* language-model escalation throws, returns nothing, or returns a confidence
\* not above the rule-based one, the result is the rule-based result unchanged.
Interprets == parse.result = NoResult /\ parse'.result # NoResult

C23_RuleBasedFallback ==
  [][(parse.text # <<>> /\ parse.result = NoResult /\ parse'.text = parse.text
        /\ parse' # parse) =>
       LET ruleBased == parseWithRules(parse.text, parse'.context[1], parse'.context[2])
           ai == parse'.ai
       IN /\ parse'.result # NoResult /\ parse'.result.intent # "none"
          /\ (\/ ai.kind \in {"throws", "nothing"}
              \/ ai.kind = "json" /\ ~(ai.value.confidence > ruleBased.confidence))
               => parse'.result = ruleBased]_vars

\* the escalation threw for a text the rules could not place, and the result
\* is the rule-based one
C23_Witness ==
  /\ parse.ai.kind = "throws"
  /\ parse.result = parseWithRules(parse.text, parse.context[1], parse.context[2])
  /\ parse.result.intent = "unknown" /\ parse.result.confidence = 30

\* ---------------------------------------------------------------------
\* C24: a text equal to a command token (help, ?, list, tasks, show tasks,
\* ideas, show ideas, done, snooze, settings) gets the token's intent with
\* confidence at least 0.85, the same result in every zone and at every
\* reference time; and the intent rules apply in the order command, done,
\* snooze, idea, todo, remind, move, default.
CommandIntent(lower) ==
  CASE lower \in {<<"help">>, <<"?">>} -> Detected("help", "none")
    [] lower \in {<<"list">>, <<"tasks">>, <<"show", "tasks">>} -> Detected("list_tasks", "none")
    [] lower \in {<<"ideas">>, <<"show", "ideas">>} -> Detected("list_tasks", "IDEA")
    [] lower = <<"done">> -> Detected("mark_done", "none")
    [] lower = <<"snooze">> -> Detected("snooze", "none")
    [] lower = <<"settings">> -> Detected("set_pref", "none")
    [] OTHER -> Detected("none", "none")

RuleOrder == <<"command", "done", "snooze", "idea", "todo", "remind", "move", "default">>

RuleMatches(rule, lower) ==
  CASE rule = "command" -> CommandIntent(lower).intent \notin {"none", "mark_done", "snooze"}
    [] rule = "done" -> Len(lower) >= 1 /\ StartsWith(lower[1], "done")
    [] rule = "snooze" -> Len(lower) >= 1 /\ lower[1] = "snooze"
    [] rule = "idea" -> (Len(lower) >= 1 /\ lower[1] = "idea:") \/ HasWord(lower, "brainstorm")
    [] rule = "todo" -> Len(lower) >= 1 /\ lower[1] = "todo:"
    [] rule = "remind" -> HasWord(lower, "reminder")
    [] rule = "move" -> HasWord(lower, "move") /\ HasMoveTarget(lower)
    [] rule = "default" -> TRUE

RuleIntent(rule, lower) ==
  CASE rule = "command" -> CommandIntent(lower)
    [] rule = "done" -> Detected("mark_done", "none")
    [] rule = "snooze" -> Detected("snooze", "none")
    [] rule = "idea" -> Detected("create_task", "IDEA")
    [] rule = "todo" -> Detected("create_task", "TODO")
    [] rule = "remind" -> Detected("create_task", "TODO")
    [] rule = "move" -> Detected("move_task", "none")
    [] rule = "default" -> Detected("create_task", "TODO")

C24_CommandsAndPrecedence ==
  [][Interprets =>
       LET lower == toLowerCase(parse.text)
       IN /\ CommandIntent(lower).intent # "none" =>
               /\ parse'.result.intent = CommandIntent(lower).intent
               /\ parse'.result.status = CommandIntent(lower).status
               /\ parse'.result.confidence >= 85
               /\ \A c \in Contexts, ai \in Escalations :
                    parseMessage(parse.text, c[1], c[2], ai) = parse'.result
          /\ \A k \in 1..Len(RuleOrder) :
               (/\ RuleMatches(RuleOrder[k], lower)
                /\ \A e \in 1..(k - 1) : ~RuleMatches(RuleOrder[e], lower))
                 => detectIntentRuleBased(parse.text) = RuleIntent(RuleOrder[k], lower)]_vars

\* "show ideas" read as the list of ideas for the user in Kolkata; and a text
\* that two rules match ("done: ..." with "brainstorm") read as mark_done
C24_Witness ==
  \/ /\ parse.text = <<"show", "ideas">> /\ parse.context[1] = 19800
     /\ parse.result.intent = "list_tasks" /\ parse.result.status = "IDEA"
  \/ /\ Len(parse.text) >= 2 /\ parse.text[1] = "done:" /\ parse.text[2] = "brainstorm"
     /\ parse.result.intent = "mark_done"

\* ---------------------------------------------------------------------
\* C25: for a snooze message the interpreter's snoozeMinutes is -1 when the
\* text contains "tomorrow", N * 60 when a number N is followed by an hour
\* unit, N when it is followed by a minute unit or by no unit, and 15 when the
\* text has no digits.
NumberAt(lower) == Min({i \in 1..Len(lower) : NumPrefix(lower[i]) # 0})

HourUnitAt(lower, i) ==
  \/ lower[i] = "2h"
  \/ NumPrefix(lower[i]) # 0 /\ lower[i] \notin {"2h", "5pm"}
       /\ i < Len(lower) /\ StartsWith(lower[i + 1], "h")

ClaimedSnoozeMinutes(lower) ==
  IF HasWord(lower, "tomorrow") THEN -1
  ELSE IF \E i \in 1..Len(lower) : NumPrefix(lower[i]) # 0
    THEN IF HourUnitAt(lower, NumberAt(lower))
           THEN NumPrefix(lower[NumberAt(lower)]) * 60
           ELSE NumPrefix(lower[NumberAt(lower)])
  ELSE 15

C25_SnoozeDurationParsed ==
  [][(Interprets /\ parse'.result.intent = "snooze") =>
       parse'.result.snoozeMinutes = ClaimedSnoozeMinutes(toLowerCase(parse.text))]_vars

\* ---------------------------------------------------------------------
\* C26: ideas are reminder-free: an interpretation whose task status is IDEA
\* carries no reminderAt, and a task the dispatcher creates from a text with
\* status IDEA has no reminder.
C26_IdeasReminderFree ==
  /\ parse.result.status = "IDEA" => parse.result.reminderAt = NullDate
  /\ parse.outcome.created.status = "IDEA" => ~parse.outcome.created.reminder

\* ---------------------------------------------------------------------
\* C29: for an interpretation with intent unknown and confidence below 0.6, a
\* non-empty title is saved as an IDEA task holding that text (for a rule-based
\* result: the message itself); without a title the dispatcher sends help and
\* creates no task.
C29_UnknownSavedAsIdea ==
  [][(Interprets /\ parse'.result.intent = "unknown"
        /\ parse'.result.confidence < AI_CONFIDENCE_THRESHOLD) =>
       /\ parse'.result.title # <<>> =>
            /\ parse'.outcome.action = "saved_as_idea"
            /\ parse'.outcome.created =
                 [status |-> "IDEA", title |-> parse'.result.title, reminder |-> FALSE]
            /\ parse'.ai.kind # "json" => parse'.outcome.created.title = parse.text
       /\ parse'.result.title = <<>> =>
            /\ parse'.outcome.action = "help_sent"
            /\ parse'.outcome.created = NoTaskCreated]_vars

\* a text the rules could not place, the escalation silent: saved as an idea
\* with the text as its title
C29_Witness ==
  /\ parse.ai.kind = "nothing"
  /\ parse.result.intent = "unknown" /\ parse.result.confidence = 30
  /\ parse.outcome.action = "saved_as_idea"
  /\ parse.outcome.created.status = "IDEA" /\ parse.outcome.created.title = parse.text
  /\ ~parse.outcome.created.reminder

\* ---------------------------------------------------------------------
\* C27: for every task id, also one with underscores, the ids the system puts
\* on reminder buttons and snooze rows are decoded to the same action, the same
\* duration and the same task id; every other id yields unknown_reply and
\* calls no service.
Emitted(replyId) ==
  {p \in QUICK_REPLY_IDS :
     /\ Len(replyId) > Len(p) + 1
     /\ SubSeq(replyId, 1, Len(p) + 1) = p \o <<"_">>}

EmittedTaskId(replyId, p) == SubSeq(replyId, Len(p) + 2, Len(replyId))

ButtonMeaning(p) ==
  CASE p = <<"action", "_", "done">> -> [action |-> "task_done", call |-> "markTaskDone", minutes |-> 0]
    [] p = <<"action", "_", "snooze">> ->
         [action |-> "snooze_options_sent", call |-> "sendSnoozeOptions", minutes |-> 0]
    [] p = <<"action", "_", "edit">> -> [action |-> "edit_instruction_sent", call |-> "none", minutes |-> 0]
    [] p = <<"snooze", "_", "15">> -> [action |-> "task_snoozed", call |-> "snoozeTask", minutes |-> 15]
    [] p = <<"snooze", "_", "60">> -> [action |-> "task_snoozed", call |-> "snoozeTask", minutes |-> 60]
    [] p = <<"snooze", "_", "180">> -> [action |-> "task_snoozed", call |-> "snoozeTask", minutes |-> 180]
    [] p = <<"snooze", "_", "tomorrow">> -> [action |-> "task_snoozed", call |-> "snoozeTask", minutes |-> -1]

C27_ActionIdRoundTrip ==
  parse.decoded # NoDecoded =>
    /\ \A p \in Emitted(parse.replyId) :
         /\ parse.decoded.action = ButtonMeaning(p).action
         /\ parse.decoded.call = ButtonMeaning(p).call
         /\ parse.decoded.minutes = ButtonMeaning(p).minutes
         /\ parse.decoded.call # "none" => parse.decoded.taskId = EmittedTaskId(parse.replyId, p)
    /\ Emitted(parse.replyId) = {} =>
         (parse.decoded.action = "unknown_reply" /\ parse.decoded.call = "none")

\* the ids the system emits do make the round trip, underscores in the task id
\* included
C27_EmittedIdsRoundTrip ==
  parse.decoded # NoDecoded =>
    \A p \in Emitted(parse.replyId) :
      /\ parse.decoded.action = ButtonMeaning(p).action
      /\ parse.decoded.minutes = ButtonMeaning(p).minutes
      /\ parse.decoded.call # "none" => parse.decoded.taskId = EmittedTaskId(parse.replyId, p)

\* ---------------------------------------------------------------------
\* C28: the webhook route acknowledges every accepted POST before any
\* dispatcher side effect of its payload, and the acknowledgment stands
\* whether processing succeeds or fails.
C28_AckBeforeProcessing ==
  /\ hook.effects > 0 => hook.status = 200
  /\ hook.logged > 0 => hook.status = 200
  /\ hook.pc = "processing" => hook.status = 200
  /\ (hook.pc = "done" /\ hook.status # 401) => hook.status = 200

\* a payload whose interactive reply threw after a text had been handled: the
\* error is logged, the POST was acknowledged
C28_Witness ==
  /\ hook.pc = "done" /\ hook.status = 200
  /\ hook.effects >= 2 /\ hook.logged >= 1
  /\ \E i \in 1..Len(hook.messages) : hook.messages[i] = "text_fails"

\* ---------------------------------------------------------------------
\* C31: for a text with a time and neither "today" nor "tomorrow", the
\* reminder time is the text's clock time on the reference's local day, or
\* exactly one day later when that moment is before the reference time, and
\* it is never earlier than the reference time.
TimeWithoutDay == interp.phrase.hour # 0 /\ interp.phrase.day = "none"

C31_DayRollover ==
  TimeWithoutDay =>
    LET zonedRef == interp.clock + interp.zone[1]
        wall == interp.reminderAt + interp.zone[2]
        today == (zonedRef \div DaySec) * DaySec + (wall % DaySec)
    IN /\ interp.reminderAt >= interp.clock
       /\ wall = IF today < zonedRef THEN today + DaySec ELSE today

\* ---------------------------------------------------------------------
\* C32: a bare hour 1..11 without am / pm is taken as h + 12 whenever the
\* current local hour is 12 or later (the morning hour is then past today);
\* with am or pm the hour is the one given.
C32_MeridiemResolution ==
  interp.phrase.hour # 0 =>
    LET currentHour == ((interp.clock + interp.zone[1]) % DaySec) \div HourSec
        resolvedHour == ((interp.reminderAt + interp.zone[2]) % DaySec) \div HourSec
        p == interp.phrase
    IN /\ (p.meridiem = "none" /\ p.hour \in 1..11 /\ currentHour >= 12)
            => resolvedHour = p.hour + 12
       /\ p.meridiem = "am" => resolvedHour = p.hour % 12
       /\ p.meridiem = "pm" => resolvedHour = (p.hour % 12) + 12

\* ---------------------------------------------------------------------
\* C33: the language model is called only for a rule-based confidence below
\* 0.6 and with a client configured; its answer replaces the rule-based result
\* only with a strictly greater confidence; rule-based results of confidence
\* 0.95, 0.9, 0.85 and 0.7 are returned as they are.
C33_EscalationGate ==
  [][Interprets =>
       LET ruleBased == parseWithRules(parse.text, parse'.context[1], parse'.context[2])
           ai == parse'.ai
       IN /\ ai # NotCalled =>
               ruleBased.confidence < AI_CONFIDENCE_THRESHOLD /\ ai.kind # "unavailable"
          /\ parse'.result # ruleBased =>
               /\ ai.kind = "json" /\ parse'.result = ai.value
               /\ ai.value.confidence > ruleBased.confidence
          /\ ruleBased.confidence \in {95, 90, 85, 70} => parse'.result = ruleBased]_vars

\* a create_task without a title, confidence 0.7, came back as the rules made it
C33_Witness ==
  /\ parse.result # NoResult
  /\ parse.result = parseWithRules(parse.text, parse.context[1], parse.context[2])
  /\ parse.result.confidence = 70
  /\ parse.ai = NotCalled

\* ---------------------------------------------------------------------
\* C34: a text "done" / "snooze" with or without a task id, and an
\* interactive reply, change only tasks of the user who sent them.
C34_OnlyOwnTasks ==
  [][\A t \in ChatTaskIds :
       (chat.message # NoMessage /\ chat'.message = NoMessage /\ chat'.task[t] # chat.task[t])
         => chat.task[t].owner = chat.message.from]_vars

\* ---------------------------------------------------------------------
\* C35: between service calls, a task in status DONE has no reminder in
\* state SCHEDULED.
C35_DoneHasNoScheduled ==
  op.name = "idle" =>
    \A t \in TIds : (TaskLive(t) /\ tasks[t].status = "DONE") => ScheduledOf(t) = {}

\* ---------------------------------------------------------------------
\* C36: an updateTask that changes neither the task's status nor its
\* reminderAt changes no reminder and no queued job.
PlainUpdateStep == op.name = "updateTask" /\ op.phase = 0 /\ op' # op

C36_PlainUpdateFrame ==
  [][PlainUpdateStep => (reminders' = reminders /\ jobs' = jobs)]_vars

\* ---------------------------------------------------------------------
\* C37: between service calls, every SCHEDULED reminder of a task has the
\* task's reminderAt as its scheduledAt.
C37_ScheduledAtIsReminderAt ==
  op.name = "idle" =>
    \A r \in RIds :
      (reminders[r].state = "SCHEDULED" /\ TaskLive(reminders[r].taskId))
        => reminders[r].scheduledAt = tasks[reminders[r].taskId].reminderAt

\* ---------------------------------------------------------------------
\* C38: a bare "done" or "snooze" never resolves, through the recently sent
\* reminder, to a task whose delivered reminder the user has already acted on
\* (the task was marked done, or snoozed since the delivery).
ActedOn(t) ==
  /\ chat.task[t].sentAt # NullDate
  /\ chat.task[t].status = "DONE" \/ chat.task[t].scheduled

BareRun ==
  /\ chat.message.handler \in {"mark_done", "snooze"}
  /\ chat.message.taskId = NoTask
  /\ chat'.message = NoMessage

C38_ActedReminderNotTarget ==
  [][BareRun => \A t \in getRecentSentReminder : ~ActedOn(t)]_vars

\* ---------------------------------------------------------------------
\* a text message of the user was handled in this step
TextHandled ==
  /\ session' # session /\ session'.event = "text" /\ session'.hour = session.hour

Unnamed == ~session.isOnboarded /\ session.name = <<>>

\* the text as the handler compares it: spaces at both ends dropped, in lower case
AsCompared == toLowerCase(trim(session'.text))

InboundHandled ==
  /\ session' # session /\ session'.event \in {"text", "reply"}
  /\ session'.hour = session.hour

\* C40: handling an inbound text message or interactive reply leaves the
\* user's lastInboundAt at the current time, also when the action fails or
\* the reply id is unknown; and a reminder message that is sent at most 24
\* hours after the user's last inbound message arrived goes out as
\* SESSION_FREEFORM.
C40_InboundOpensSession ==
  [][/\ InboundHandled => session'.lastInboundAt = session.hour
     /\ (/\ SendDecides
         /\ session.arrivedAt # NullDate
         /\ session.hour - session.arrivedAt <= SessionWindowHours) =>
          session'.used = "SESSION_FREEFORM"]_vars

\* a reminder went out with buttons 24 hours after a reply with an unknown id,
\* the user's only inbound message
C40_Witness ==
  /\ session.event = "send" /\ session.used = "SESSION_FREEFORM"
  /\ session.action = "unknown_reply"
  /\ session.hour - session.arrivedAt = SessionWindowHours

====
